---- MODULE Spec2Model ----
(***************************************************************************)
(* Shrink-wrap phase retrieval of imresh: the CPU driver shrinkWrap        *)
(* (algorithms/shrinkWrap.cpp) and the accelerator driver cudaShrinkWrap   *)
(* (algorithms/cuda/cudaShrinkWrap.cpp), one statement per step.           *)
(*                                                                         *)
(* Real numbers are fixed-point integers in units of 1e-5 (One == 1.0).    *)
(* Array contents are symbolic terms, tuples <<operation, operands...>>,   *)
(* because the FFT, the blur and the reductions live in libraries outside  *)
(* the controller; the controller decides which operation is applied to    *)
(* which buffer and in which order, and that is what the terms record.     *)
(***************************************************************************)
EXTENDS Integers, Sequences, FiniteSets, TLC

\* ------------------------------------------------------------------ bounds
\* largest rnCycles argument tried
MaxCyclesArg == 2
\* largest rnHioCycles argument tried
MaxHioArg == 2
\* largest image width / height tried
MaxDim == 1
\* how many allocations or plan creations of one call may fail
MaxFailures == 1
\* most pixels of an image whose pixel values are followed
MaxPixels == 2
\* largest pixel value tried
MaxPixelValue == 2
\* largest rSigma tried, in quarters, and longest weight buffer tried
MaxSigma == 4
MaxWeights == 5
\* side of the square arrays of the blur test and number of impulses on them
MaxSide == 3
MaxImpulses == 2

\* ------------------------------------------------------- number encoding
\* 1.0 in fixed-point units of 1e-5
One == 100000
\* fmax( 1.5, . ) of the sigma update
SigmaFloor == 150000

Max(a, b) == IF a >= b THEN a ELSE b

\* the default arguments of the declaration (cudaShrinkWrap.h), the values
\* documented to the caller
DocDefaults ==
    [ rnCycles                  |-> 20,
      rTargetError              |-> 1,
      rHioBeta                  |-> 90000,
      rIntensityCutOffAutoCorel |-> 4000,
      rIntensityCutOff          |-> 20000,
      rSigma0                   |-> 300000,
      rSigmaChange              |-> 1000,
      rnHioCycles               |-> 20 ]

FloatParams == { "rTargetError", "rHioBeta", "rIntensityCutOffAutoCorel",
                 "rIntensityCutOff", "rSigma0", "rSigmaChange" }

\* ------------------------------------------------------------- defaulting
\* a defaulting that fills rIntensityCutOff with 0.02 instead of 0.2
shrinkWrapDefaults_WrongCutOff(a) ==
    [ rnCycles                  |-> a.rnCycles,
      rTargetError              |-> IF a.rTargetError <= 0 THEN 1 ELSE a.rTargetError,
      rnHioCycles               |-> IF a.rnHioCycles = 0 THEN 20 ELSE a.rnHioCycles,
      rHioBeta                  |-> IF a.rHioBeta <= 0 THEN 90000 ELSE a.rHioBeta,
      rIntensityCutOffAutoCorel |-> IF a.rIntensityCutOffAutoCorel <= 0 THEN 4000
                                    ELSE a.rIntensityCutOffAutoCorel,
      rIntensityCutOff          |-> IF a.rIntensityCutOff <= 0 THEN 2000
                                    ELSE a.rIntensityCutOff,
      rSigma0                   |-> IF a.rSigma0 <= 0 THEN 300000 ELSE a.rSigma0,
      rSigmaChange              |-> IF a.rSigmaChange <= 0 THEN 1000 ELSE a.rSigmaChange ]

\* shrinkWrap.cpp:138-144: rnCycles is not among the defaulted parameters
shrinkWrapDefaults(a) ==
    [ rnCycles                  |-> a.rnCycles,
      rTargetError              |-> IF a.rTargetError <= 0 THEN 1 ELSE a.rTargetError,
      rnHioCycles               |-> IF a.rnHioCycles = 0 THEN 20 ELSE a.rnHioCycles,
      rHioBeta                  |-> IF a.rHioBeta <= 0 THEN 90000 ELSE a.rHioBeta,
      rIntensityCutOffAutoCorel |-> IF a.rIntensityCutOffAutoCorel <= 0 THEN 4000
                                    ELSE a.rIntensityCutOffAutoCorel,
      rIntensityCutOff          |-> IF a.rIntensityCutOff <= 0 THEN 20000
                                    ELSE a.rIntensityCutOff,
      rSigma0                   |-> IF a.rSigma0 <= 0 THEN 300000 ELSE a.rSigma0,
      rSigmaChange              |-> IF a.rSigmaChange <= 0 THEN 1000 ELSE a.rSigmaChange ]

\* cudaShrinkWrap.cpp:90-97
cudaShrinkWrapDefaults(a) ==
    [ rnCycles                  |-> IF a.rnCycles = 0 THEN 20 ELSE a.rnCycles,
      rTargetError              |-> IF a.rTargetError <= 0 THEN 1 ELSE a.rTargetError,
      rHioBeta                  |-> IF a.rHioBeta <= 0 THEN 90000 ELSE a.rHioBeta,
      rIntensityCutOffAutoCorel |-> IF a.rIntensityCutOffAutoCorel <= 0 THEN 4000
                                    ELSE a.rIntensityCutOffAutoCorel,
      rIntensityCutOff          |-> IF a.rIntensityCutOff <= 0 THEN 20000
                                    ELSE a.rIntensityCutOff,
      rSigma0                   |-> IF a.rSigma0 <= 0 THEN 300000 ELSE a.rSigma0,
      rSigmaChange              |-> IF a.rSigmaChange <= 0 THEN 1000 ELSE a.rSigmaChange,
      rnHioCycles               |-> IF a.rnHioCycles = 0 THEN 20 ELSE a.rnHioCycles ]

\* sigma = fmax( 1.5, ( 1 - rSigmaChange ) * sigma ), the product written as
\* sigma - rSigmaChange * sigma to stay within 32-bit integers
SigmaUpdate(s, change) == Max(SigmaFloor, s - (change * s) \div One)

\* ------------------------------------------------------- symbolic contents
Intensity == <<"I">>
\* re = x, im = 0
ToComplex(x) == <<"cplx", x>>
\* elementwise real part
RealPart(z) == <<"re", z>>
\* unnormalised inverse DFT (FFTW_BACKWARD, fft_GPrimeTogPrime)
InverseFFT(z) == <<"ifft", z>>
\* unnormalised forward DFT (FFTW_FORWARD, fft_gToG)
ForwardFFT(z) == <<"fft", z>>
\* complexNormElementwise: |z|
ComplexNorm(z) == <<"norm", z>>
\* gaussianBlur with the given sigma
Blur(m, s) == <<"blur", m, s>>
\* m[i] < factor * max(m) ? 1 : 0
CutOff(m, factor) == <<"cut", m, factor>>
\* applyComplexModulus( z, z, rIntensity )
ComplexModulus(z, amp) == <<"mod", z, amp>>
\* result of the k-th application of the HIO domain constraint of a run
HioConstraint(k) == <<"hio", k>>
\* not written yet
Uninit == <<"uninit">>

Op(t) == t[1]

VARIABLES
    variant,            \* "cpu": shrinkWrap, "cuda": cudaShrinkWrap
    ndebug,             \* TRUE: built with NDEBUG, assert() compiles to nothing
    args,               \* the arguments as passed by the caller
    p,                  \* the by-value parameters, overwritten by the defaulting
    pc,                 \* position in the function
    status,             \* returned value, "none" while not returned
    sigma,
    nElements,
    iCycleShrinkWrap,
    iHioCycle,
    currentError,
    curData,            \* contents of curData / dpCurData
    gPrevious,          \* contents of gPrevious / dpgPrevious
    isMasked,           \* contents of isMasked / dpIsMasked
    dpIntensity,        \* contents of the device copy of the input (cuda)
    ioData,             \* contents of the caller's array rIntensity / rIoData
    res,                \* allocation state of every buffer and plan
    cycleLog,           \* operations executed since the current cycle began
    lastOp,             \* the operation executed last and the queue it ran on
    lastCopy,           \* element counts of the memory copy issued last
    count,              \* how often each kind of effect has happened
    gAtCycleEnd,        \* curData as read by the last convergence test
    concurrent,         \* calls running side by side in one process: the
                        \* position of each and what each has read or written
    kernel,             \* the frame of a call of libs::calcGaussianKernel
    images,             \* the arrays of the 2D blur test and how far each is
    frame               \* the frame of a call of one of the other functions:
                        \* fftShift, calcGaussianKernel2d, unpackBitMask,
                        \* testCalculateHioError

vars == << variant, ndebug, args, p, pc, status, sigma, nElements,
           iCycleShrinkWrap, iHioCycle, currentError, curData, gPrevious,
           isMasked, dpIntensity, ioData, res, cycleLog, lastOp, lastCopy,
           count, gAtCycleEnd, concurrent, kernel, images, frame >>

\* the state of one call
callVars == << variant, ndebug, args, p, pc, status, sigma, nElements,
               iCycleShrinkWrap, iHioCycle, currentError, curData, gPrevious,
               isMasked, dpIntensity, ioData, res, cycleLog, lastOp, lastCopy,
               count, gAtCycleEnd >>

\* ----------------------------------------------------------------- inputs
CustomFloats ==
    [ rTargetError              |-> 3,
      rHioBeta                  |-> 50000,
      rIntensityCutOffAutoCorel |-> 10000,
      rIntensityCutOff          |-> 30000,
      rSigma0                   |-> 200000,
      rSigmaChange              |-> 5000 ]

DocFloats == [ f \in FloatParams |-> DocDefaults[f] ]

\* the sentinel tried for each float parameter: 0 for some, -1 for the others
Sentinel(f) ==
    IF f \in { "rTargetError", "rIntensityCutOff", "rSigmaChange" } THEN 0 ELSE -One

\* all as documented; all different from the defaults; all sentinels; and
\* sentinels for some parameters next to chosen values for the others
FloatArgs ==
    { DocFloats, CustomFloats, [ f \in FloatParams |-> Sentinel(f) ],
      [ f \in FloatParams |->
          IF f \in { "rTargetError", "rHioBeta", "rSigma0" }
          THEN Sentinel(f) ELSE CustomFloats[f] ] }

WithFloats(fl, nc, nh) ==
    [ rnCycles                  |-> nc,
      rTargetError              |-> fl.rTargetError,
      rHioBeta                  |-> fl.rHioBeta,
      rIntensityCutOffAutoCorel |-> fl.rIntensityCutOffAutoCorel,
      rIntensityCutOff          |-> fl.rIntensityCutOff,
      rSigma0                   |-> fl.rSigma0,
      rSigmaChange              |-> fl.rSigmaChange,
      rnHioCycles               |-> nh ]

ParamArgs ==
    { WithFloats(fl, nc, nh) :
        fl \in FloatArgs, nc \in 0..MaxCyclesArg, nh \in 0..MaxHioArg }

\* rSize of shrinkWrap may have any number of entries; cudaShrinkWrap takes
\* exactly a width and a height. An extent is zero or the largest one tried.
ShapeArgs(v) ==
    { [ null |-> n, dims |-> d, width |-> w, height |-> h ] :
        n \in BOOLEAN, d \in (IF v = "cpu" THEN {1, 2, 3} ELSE {2}),
        w \in { 0, MaxDim }, h \in { 0, MaxDim } }

Resources == { "curData", "gPrevious", "isMasked", "dpIntensity",
               "pHostToWrite", "toRealSpace", "toFreqSpace" }

NoOp == [ name |-> "none", queue |-> "host" ]
NoCopy == [ n |-> 0, src |-> 0, dst |-> 0 ]
NoCount == [ files |-> 0, ioWrites |-> 0, maskUpdates |-> 0, hioSteps |-> 0,
             ffts |-> 0, tests |-> 0, gPrevWrites |-> 0, cycles |-> 0,
             failures |-> 0, defaulted |-> 0 ]

\* largest value of the model's unsigned word. unsigned int has 32 bits; the
\* model's word has 31, the widest that the checker's integers hold
UnsignedMax == 2147483647
\* conversion of an int argument to an unsigned parameter: modulo the word
ToUnsigned(x) == IF x < 0 THEN (UnsignedMax + x) + 1 ELSE x
\* the parameters as the function receives them: rnCycles and rnHioCycles are
\* unsigned, the others float
PassedByValue(a) ==
    [ a EXCEPT !.rnCycles = ToUnsigned(@), !.rnHioCycles = ToUnsigned(@) ]

\* one call on its own
NoCalls == [ at |-> << >>, used |-> { } ]
\* no call of calcGaussianKernel and no blur test under way
NoKernel == [ pc |-> "none" ]
NoImages == [ pc |-> "none" ]
NoFrame == [ pc |-> "none" ]
LibsIdle == kernel = NoKernel /\ images = NoImages /\ frame = NoFrame

\* the arguments of a call, with parameters out of P
CallArgs(P) ==
    /\ variant \in { "cpu", "cuda" }
    /\ ndebug \in BOOLEAN
    /\ \E par \in P, sh \in ShapeArgs(variant) :
          /\ args = [ par |-> par, shape |-> sh ]
          /\ p = PassedByValue(par)

\* the locals of a call that is at position at with cur, prev and mask in its
\* buffers and has not done anything yet
CallLocals(at, cur, prev, mask) ==
    /\ pc = at
    /\ status = "none"
    /\ sigma = 0
    /\ nElements = 0
    /\ iCycleShrinkWrap = 0
    /\ iHioCycle = 0
    /\ currentError = 0
    /\ curData = cur
    /\ gPrevious = prev
    /\ isMasked = mask
    /\ dpIntensity = Uninit
    /\ ioData = Intensity
    /\ res = [ r \in Resources |-> "none" ]
    /\ cycleLog = << >>
    /\ lastOp = NoOp
    /\ lastCopy = NoCopy
    /\ count = NoCount
    /\ gAtCycleEnd = Uninit

\* entry of shrinkWrap / cudaShrinkWrap, called with parameters out of P
CallInitWith(P) == CallArgs(P) /\ CallLocals("entry", Uninit, Uninit, Uninit)

CallInit == CallInitWith(ParamArgs)

Init == CallInit /\ concurrent = NoCalls /\ LibsIdle


\* ---------------------------------------------------------------- helpers
Inc(f) == [ count EXCEPT ![f] = @ + 1 ]
\* an allocation of resource r: it succeeds, or (while the environment may
\* still fail one) it does not and leaves r as bad
Allocate(r, bad) ==
    \/ res' = [ res EXCEPT ![r] = "live" ] /\ count' = count
    \/ /\ count.failures < MaxFailures
       /\ res' = [ res EXCEPT ![r] = bad ]
       /\ count' = Inc("failures")
Ran(name, queue) == lastOp' = [ name |-> name, queue |-> queue ]
Logged(name) == cycleLog' = Append(cycleLog, name)
\* what no statement of shrinkWrap / cudaShrinkWrap writes
inputs == << variant, ndebug, args, concurrent, kernel, images, frame >>
buffers == << curData, gPrevious, isMasked, dpIntensity, ioData >>
loopVars == << iCycleShrinkWrap, iHioCycle, currentError, gAtCycleEnd >>

\* the buffers and plans a statement dereferences
Needs(at) ==
    CASE at \in { "sw_copyIntensity", "sw_copyIntensityAgain", "sw_copyOut" }
            -> { "curData" }
      [] at \in { "sw_initInverseFFT", "sw_inverseFFT" }
            -> { "curData", "toRealSpace" }
      [] at \in { "sw_initNorm", "sw_maskNorm", "sw_converged" }
            -> { "curData", "isMasked" }
      [] at \in { "sw_initBlur", "sw_maskBlur", "sw_initThreshold",
                  "sw_maskThreshold", "sw_initWriteBlurred", "sw_initWriteMask" }
            -> { "isMasked" }
      [] at = "sw_seedGPrevious" -> { "curData", "gPrevious" }
      [] at = "sw_hioConstraint" -> { "curData", "gPrevious", "isMasked" }
      [] at = "sw_forwardFFT" -> { "toFreqSpace" }
      [] at = "sw_applyModulus" -> { "curData" }
      [] at \in { "cu_copyToDevice", "cu_copyToHost" } -> { "dpIntensity", "rIoData" }
      [] at \in { "cu_copyToRealPart", "cu_copyFromRealPart", "cu_applyModulus" }
            -> { "curData", "dpIntensity" }
      [] at \in { "cu_maskNorm", "cu_converged" } -> { "curData", "isMasked" }
      [] at \in { "cu_maskBlur", "cu_maskThreshold", "cu_writeBlurred",
                  "cu_writeMask", "cu_writeIntensity" } -> { "isMasked" }
      [] at = "cu_seedGPrevious" -> { "curData", "gPrevious" }
      [] at = "cu_hioConstraint" -> { "curData", "gPrevious", "isMasked" }
      [] at = "cu_forwardFFT" -> { "curData", "gPrevious" }
      [] at \in { "cu_initInverseFFT", "cu_inverseFFT", "cu_writeObject",
                  "cu_writeCycleObject" } -> { "curData" }
      [] OTHER -> { }

\* the statement at position "at" goes through a NULL pointer (with at least
\* one element to touch) or executes a NULL plan
Faults(at) ==
    \E r \in Needs(at) :
       /\ IF r = "rIoData" THEN args.shape.null ELSE res[r] = "null"
       /\ r \in { "toRealSpace", "toFreqSpace" } \/ nElements > 0

\* control is at "at" and the statement there has defined behaviour
At(at) == pc = at /\ ~Faults(at)

\* ============================================================== shrinkWrap
\* if ( rSize.size() != 2 ) return 1;
shrinkWrap_CheckSize ==
    /\ variant = "cpu" /\ At("entry")
    /\ IF args.shape.dims # 2
       THEN pc' = "returned" /\ status' = 1
       ELSE pc' = "sw_checkNull" /\ status' = status
    /\ UNCHANGED << inputs, p, sigma, nElements, loopVars, buffers, res,
                    cycleLog, lastOp, lastCopy, count >>

\* if ( rIntensity == NULL ) return 1;
shrinkWrap_CheckNull ==
    /\ At("sw_checkNull")
    /\ IF args.shape.null
       THEN pc' = "returned" /\ status' = 1
       ELSE pc' = "sw_defaults" /\ status' = status
    /\ UNCHANGED << inputs, p, sigma, nElements, loopVars, buffers, res,
                    cycleLog, lastOp, lastCopy, count >>

\* the seven "fill with default values" statements and float sigma = rSigma0
shrinkWrap_Defaults ==
    /\ At("sw_defaults")
    /\ p' = shrinkWrapDefaults(p)
    /\ sigma' = p'.rSigma0
    /\ count' = Inc("defaulted")
    /\ pc' = "sw_countElements"
    /\ UNCHANGED << inputs, status, nElements, loopVars, buffers, res,
                    cycleLog, lastOp, lastCopy >>

\* nElements *= rSize[i] under assert( rSize[i] > 0 )
shrinkWrap_CountElements ==
    /\ At("sw_countElements")
    /\ IF ~ndebug /\ (args.shape.width = 0 \/ args.shape.height = 0)
       THEN pc' = "aborted" /\ nElements' = nElements
       ELSE pc' = "sw_allocCurData"
            /\ nElements' = args.shape.width * args.shape.height
    /\ UNCHANGED << inputs, p, status, sigma, loopVars, buffers, res,
                    cycleLog, lastOp, lastCopy, count >>

\* fftwf_alloc_complex( nElements ): NULL when out of memory, never checked
shrinkWrap_AllocCurData ==
    /\ At("sw_allocCurData")
    /\ Allocate("curData", "null")
    /\ pc' = "sw_allocGPrevious"
    /\ UNCHANGED << inputs, p, status, sigma, nElements, loopVars, buffers,
                    cycleLog, lastOp, lastCopy >>

shrinkWrap_AllocGPrevious ==
    /\ At("sw_allocGPrevious")
    /\ Allocate("gPrevious", "null")
    /\ pc' = "sw_allocIsMasked"
    /\ UNCHANGED << inputs, p, status, sigma, nElements, loopVars, buffers,
                    cycleLog, lastOp, lastCopy >>

\* new float[nElements]: std::bad_alloc leaves the function by unwinding
shrinkWrap_AllocIsMasked ==
    /\ At("sw_allocIsMasked")
    /\ Allocate("isMasked", "none")
    /\ pc' = IF res'["isMasked"] = "live" THEN "sw_planToRealSpace" ELSE "thrown"
    /\ UNCHANGED << inputs, p, status, sigma, nElements, loopVars, buffers,
                    cycleLog, lastOp, lastCopy >>

\* fftwf_plan_dft( ..., curData, curData, FFTW_BACKWARD, ... ): NULL on failure
shrinkWrap_PlanToRealSpace ==
    /\ At("sw_planToRealSpace")
    /\ Allocate("toRealSpace", "null")
    /\ pc' = "sw_planToFreqSpace"
    /\ UNCHANGED << inputs, p, status, sigma, nElements, loopVars, buffers,
                    cycleLog, lastOp, lastCopy >>

\* fftwf_plan_dft( ..., gPrevious, curData, FFTW_FORWARD, ... )
shrinkWrap_PlanToFreqSpace ==
    /\ At("sw_planToFreqSpace")
    /\ Allocate("toFreqSpace", "null")
    /\ pc' = "sw_copyIntensity"
    /\ UNCHANGED << inputs, p, status, sigma, nElements, loopVars, buffers,
                    cycleLog, lastOp, lastCopy >>

\* curData[i][0] = rIntensity[i]; curData[i][1] = 0;
shrinkWrap_CopyIntensity ==
    /\ At("sw_copyIntensity")
    /\ curData' = ToComplex(ioData)
    /\ Ran("copyToRealPart", "host")
    /\ pc' = "sw_initInverseFFT"
    /\ UNCHANGED << inputs, p, status, sigma, nElements, loopVars, gPrevious,
                    isMasked, dpIntensity, ioData, res, cycleLog, lastCopy, count >>

\* fftwf_execute( toRealSpace ): the autocorrelation
shrinkWrap_InitInverseFFT ==
    /\ At("sw_initInverseFFT")
    /\ curData' = InverseFFT(curData)
    /\ Ran("inverseFFT", "host")
    /\ count' = Inc("ffts")
    /\ pc' = "sw_initNorm"
    /\ UNCHANGED << inputs, p, status, sigma, nElements, loopVars, gPrevious,
                    isMasked, dpIntensity, ioData, res, cycleLog, lastCopy >>

\* complexNormElementwise( isMasked, curData, nElements )
shrinkWrap_InitNorm ==
    /\ At("sw_initNorm")
    /\ isMasked' = ComplexNorm(curData)
    /\ Ran("complexNorm", "host")
    /\ pc' = "sw_initBlur"
    /\ UNCHANGED << inputs, p, status, sigma, nElements, loopVars, curData,
                    gPrevious, dpIntensity, ioData, res, cycleLog, lastCopy, count >>

\* libs::gaussianBlur( isMasked, Nx, Ny, sigma )
shrinkWrap_InitBlur ==
    /\ At("sw_initBlur")
    /\ isMasked' = Blur(isMasked, sigma)
    /\ Ran("gaussianBlur", "host")
    /\ pc' = "sw_initWriteBlurred"
    /\ UNCHANGED << inputs, p, status, sigma, nElements, loopVars, curData,
                    gPrevious, dpIntensity, ioData, res, cycleLog, lastCopy, count >>

\* DEBUG_SHRINKWRAPP_CPP == 1: shrinkWrap-init-mask-blurred.dat
shrinkWrap_InitWriteBlurred ==
    /\ At("sw_initWriteBlurred")
    /\ count' = Inc("files")
    /\ Ran("writeFile", "host")
    /\ pc' = "sw_initThreshold"
    /\ UNCHANGED << inputs, p, status, sigma, nElements, loopVars, buffers,
                    res, cycleLog, lastCopy >>

\* isMasked[i] = isMasked[i] < rIntensityCutOffAutoCorel * absMax ? 1 : 0
shrinkWrap_InitThreshold ==
    /\ At("sw_initThreshold")
    /\ isMasked' = CutOff(isMasked, p.rIntensityCutOffAutoCorel)
    /\ Ran("cutOff", "host")
    /\ pc' = "sw_initWriteMask"
    /\ UNCHANGED << inputs, p, status, sigma, nElements, loopVars, curData,
                    gPrevious, dpIntensity, ioData, res, cycleLog, lastCopy, count >>

\* DEBUG_SHRINKWRAPP_CPP == 1: shrinkWrap-init-mask.dat
shrinkWrap_InitWriteMask ==
    /\ At("sw_initWriteMask")
    /\ count' = Inc("files")
    /\ Ran("writeFile", "host")
    /\ pc' = "sw_copyIntensityAgain"
    /\ UNCHANGED << inputs, p, status, sigma, nElements, loopVars, buffers,
                    res, cycleLog, lastCopy >>

\* "copy original image into fftw_complex array"
shrinkWrap_CopyIntensityAgain ==
    /\ At("sw_copyIntensityAgain")
    /\ curData' = ToComplex(ioData)
    /\ Ran("copyToRealPart", "host")
    /\ pc' = "sw_seedGPrevious"
    /\ UNCHANGED << inputs, p, status, sigma, nElements, loopVars, gPrevious,
                    isMasked, dpIntensity, ioData, res, cycleLog, lastCopy, count >>

\* gPrevious[i] = curData[i]
shrinkWrap_SeedGPrevious ==
    /\ At("sw_seedGPrevious")
    /\ gPrevious' = curData
    /\ count' = Inc("gPrevWrites")
    /\ Ran("seedGPrevious", "host")
    /\ pc' = "sw_loopTest"
    /\ UNCHANGED << inputs, p, status, sigma, nElements, loopVars, curData,
                    isMasked, dpIntensity, ioData, res, cycleLog, lastCopy >>


\* for ( iCycleShrinkWrap = 0; iCycleShrinkWrap < rnCycles; ... ); the
\* const currentError of the loop body starts its life anew in every iteration
shrinkWrap_LoopTest ==
    /\ At("sw_loopTest")
    /\ IF iCycleShrinkWrap < p.rnCycles
       THEN /\ pc' = "sw_maskNorm" /\ cycleLog' = << >> /\ count' = Inc("cycles")
            /\ currentError' = 0
       ELSE /\ pc' = "sw_copyOut" /\ cycleLog' = cycleLog /\ count' = count
            /\ currentError' = currentError
    /\ UNCHANGED << inputs, p, status, sigma, nElements, iCycleShrinkWrap,
                    iHioCycle, gAtCycleEnd, buffers,
                    res, lastOp, lastCopy >>

\* complexNormElementwise( isMasked, curData, nElements )
shrinkWrap_MaskNorm ==
    /\ At("sw_maskNorm")
    /\ isMasked' = ComplexNorm(curData)
    /\ Ran("complexNorm", "host") /\ Logged("complexNorm")
    /\ pc' = "sw_maskBlur"
    /\ UNCHANGED << inputs, p, status, sigma, nElements, loopVars, curData,
                    gPrevious, dpIntensity, ioData, res, lastCopy, count >>

\* libs::gaussianBlur( isMasked, Nx, Ny, sigma )
shrinkWrap_MaskBlur ==
    /\ At("sw_maskBlur")
    /\ isMasked' = Blur(isMasked, sigma)
    /\ Ran("gaussianBlur", "host") /\ Logged("gaussianBlur")
    /\ pc' = "sw_maskThreshold"
    /\ UNCHANGED << inputs, p, status, sigma, nElements, loopVars, curData,
                    gPrevious, dpIntensity, ioData, res, lastCopy, count >>

\* isMasked[i] = isMasked[i] < rIntensityCutOff * absMax ? 1 : 0
shrinkWrap_MaskThreshold ==
    /\ At("sw_maskThreshold")
    /\ isMasked' = CutOff(isMasked, p.rIntensityCutOff)
    /\ Ran("cutOff", "host") /\ Logged("cutOff")
    /\ count' = Inc("maskUpdates")
    /\ pc' = "sw_sigmaUpdate"
    /\ UNCHANGED << inputs, p, status, sigma, nElements, loopVars, curData,
                    gPrevious, dpIntensity, ioData, res, lastCopy >>

\* sigma = fmax( 1.5, ( 1 - rSigmaChange ) * sigma )
shrinkWrap_SigmaUpdate ==
    /\ At("sw_sigmaUpdate")
    /\ sigma' = SigmaUpdate(sigma, p.rSigmaChange)
    /\ Ran("sigmaUpdate", "host") /\ Logged("sigmaUpdate")
    /\ iHioCycle' = 0
    /\ pc' = "sw_hioTest"
    /\ UNCHANGED << inputs, p, status, nElements, iCycleShrinkWrap,
                    currentError, gAtCycleEnd, buffers, res, lastCopy, count >>

\* an HIO loop with an off-by-one bound: iHioCycle <= rnHioCycles
shrinkWrap_HioTest_OneTooMany ==
    /\ At("sw_hioTest")
    /\ pc' = IF iHioCycle <= p.rnHioCycles THEN "sw_hioConstraint" ELSE "sw_converged"
    /\ UNCHANGED << inputs, p, status, sigma, nElements, loopVars, buffers,
                    res, cycleLog, lastOp, lastCopy, count >>

\* for ( iHioCycle = 0; iHioCycle < rnHioCycles; ++iHioCycle )
shrinkWrap_HioTest ==
    /\ At("sw_hioTest")
    /\ pc' = IF iHioCycle < p.rnHioCycles THEN "sw_hioConstraint" ELSE "sw_converged"
    /\ UNCHANGED << inputs, p, status, sigma, nElements, loopVars, buffers,
                    res, cycleLog, lastOp, lastCopy, count >>

\* "apply domain constraints to g' to get g"
shrinkWrap_HioConstraint ==
    /\ At("sw_hioConstraint")
    /\ gPrevious' = HioConstraint(count.hioSteps + 1)
    /\ count' = [ count EXCEPT !.hioSteps = @ + 1, !.gPrevWrites = @ + 1 ]
    /\ Ran("hioConstraint", "host") /\ Logged("hioConstraint")
    /\ pc' = "sw_forwardFFT"
    /\ UNCHANGED << inputs, p, status, sigma, nElements, loopVars, curData,
                    isMasked, dpIntensity, ioData, res, lastCopy >>

\* fftwf_execute( toFreqSpace ): gPrevious -> curData
shrinkWrap_ForwardFFT ==
    /\ At("sw_forwardFFT")
    /\ curData' = ForwardFFT(gPrevious)
    /\ count' = Inc("ffts")
    /\ Ran("forwardFFT", "host") /\ Logged("forwardFFT")
    /\ pc' = "sw_applyModulus"
    /\ UNCHANGED << inputs, p, status, sigma, nElements, loopVars, gPrevious,
                    isMasked, dpIntensity, ioData, res, lastCopy >>

\* a modulus projection that stores its result in rIntensity as well
shrinkWrap_ApplyModulus_IntoIntensity ==
    /\ At("sw_applyModulus")
    /\ curData' = ComplexModulus(curData, ioData)
    /\ ioData' = ComplexNorm(curData')
    /\ count' = Inc("ioWrites")
    /\ Ran("complexModulus", "host") /\ Logged("complexModulus")
    /\ pc' = "sw_inverseFFT"
    /\ UNCHANGED << inputs, p, status, sigma, nElements, loopVars, gPrevious,
                    isMasked, dpIntensity, res, lastCopy >>

\* applyComplexModulus( curData, curData, rIntensity, nElements )
shrinkWrap_ApplyModulus ==
    /\ At("sw_applyModulus")
    /\ curData' = ComplexModulus(curData, ioData)
    /\ Ran("complexModulus", "host") /\ Logged("complexModulus")
    /\ pc' = "sw_inverseFFT"
    /\ UNCHANGED << inputs, p, status, sigma, nElements, loopVars, gPrevious,
                    isMasked, dpIntensity, ioData, res, lastCopy, count >>

\* fftwf_execute( toRealSpace ), then ++iHioCycle
shrinkWrap_InverseFFT ==
    /\ At("sw_inverseFFT")
    /\ curData' = InverseFFT(curData)
    /\ count' = Inc("ffts")
    /\ Ran("inverseFFT", "host") /\ Logged("inverseFFT")
    /\ iHioCycle' = iHioCycle + 1
    /\ pc' = "sw_hioTest"
    /\ UNCHANGED << inputs, p, status, sigma, nElements, iCycleShrinkWrap,
                    currentError, gAtCycleEnd, gPrevious, isMasked,
                    dpIntensity, ioData, res, lastCopy >>

\* the values calculateHioError can return, relative to the target
ErrorValues == { 0, p.rTargetError, p.rTargetError + 1 }

\* a convergence test that also stops at currentError == rTargetError
shrinkWrap_Converged_NotStrict ==
    /\ At("sw_converged")
    /\ \E e \in ErrorValues :
         /\ currentError' = e
         /\ IF p.rTargetError > 0 /\ e <= p.rTargetError
            THEN pc' = "sw_copyOut" /\ iCycleShrinkWrap' = iCycleShrinkWrap
            ELSE IF iCycleShrinkWrap >= p.rnCycles
                 THEN pc' = "sw_copyOut" /\ iCycleShrinkWrap' = iCycleShrinkWrap
                 ELSE pc' = "sw_loopTest"
                      /\ iCycleShrinkWrap' = iCycleShrinkWrap + 1
    /\ gAtCycleEnd' = curData
    /\ count' = Inc("tests")
    /\ Ran("calculateHioError", "host") /\ Logged("calculateHioError")
    /\ UNCHANGED << inputs, p, status, sigma, nElements, iHioCycle, buffers,
                    res, lastCopy >>

\* calculateHioError and the two break statements, then ++iCycleShrinkWrap
shrinkWrap_Converged ==
    /\ At("sw_converged")
    /\ \E e \in ErrorValues :
         /\ currentError' = e
         /\ IF p.rTargetError > 0 /\ e < p.rTargetError
            THEN pc' = "sw_copyOut" /\ iCycleShrinkWrap' = iCycleShrinkWrap
            ELSE IF iCycleShrinkWrap >= p.rnCycles
                 THEN pc' = "sw_copyOut" /\ iCycleShrinkWrap' = iCycleShrinkWrap
                 ELSE pc' = "sw_loopTest"
                      /\ iCycleShrinkWrap' = iCycleShrinkWrap + 1
    /\ gAtCycleEnd' = curData
    /\ count' = Inc("tests")
    /\ Ran("calculateHioError", "host") /\ Logged("calculateHioError")
    /\ UNCHANGED << inputs, p, status, sigma, nElements, iHioCycle, buffers,
                    res, lastCopy >>

\* a copy-out that takes the HIO input g instead of the estimate g'
shrinkWrap_CopyOut_FromGPrevious ==
    /\ At("sw_copyOut")
    /\ ioData' = RealPart(gPrevious)
    /\ count' = Inc("ioWrites")
    /\ Ran("copyFromRealPart", "host")
    /\ pc' = "sw_free"
    /\ UNCHANGED << inputs, p, status, sigma, nElements, loopVars, curData,
                    gPrevious, isMasked, dpIntensity, res, cycleLog, lastCopy >>

\* rIntensity[i] = curData[i][0]
shrinkWrap_CopyOut ==
    /\ At("sw_copyOut")
    /\ ioData' = RealPart(curData)
    /\ count' = Inc("ioWrites")
    /\ Ran("copyFromRealPart", "host")
    /\ pc' = "sw_free"
    /\ UNCHANGED << inputs, p, status, sigma, nElements, loopVars, curData,
                    gPrevious, isMasked, dpIntensity, res, cycleLog, lastCopy >>

Release(r) == IF res[r] = "live" THEN "freed" ELSE res[r]

\* a faulty epilogue: delete[] isMasked is missing
shrinkWrap_Free_LeakMask ==
    /\ At("sw_free")
    /\ res' = [ r \in Resources |->
                  IF r \in { "toFreqSpace", "toRealSpace", "curData", "gPrevious" }
                  THEN Release(r) ELSE res[r] ]
    /\ pc' = "sw_return"
    /\ UNCHANGED << inputs, p, status, sigma, nElements, loopVars, buffers,
                    cycleLog, lastOp, lastCopy, count >>

\* fftwf_destroy_plan x 2, fftwf_free x 2, delete[]
shrinkWrap_Free ==
    /\ At("sw_free")
    /\ res' = [ r \in Resources |->
                  IF r \in { "toFreqSpace", "toRealSpace", "curData",
                             "gPrevious", "isMasked" }
                  THEN Release(r) ELSE res[r] ]
    /\ pc' = "sw_return"
    /\ UNCHANGED << inputs, p, status, sigma, nElements, loopVars, buffers,
                    cycleLog, lastOp, lastCopy, count >>

\* return 0;
shrinkWrap_Return ==
    /\ At("sw_return")
    /\ status' = 0
    /\ pc' = "returned"
    /\ UNCHANGED << inputs, p, sigma, nElements, loopVars, buffers, res,
                    cycleLog, lastOp, lastCopy, count >>

\* ========================================================== cudaShrinkWrap
\* assert( rImageWidth > 0 ); assert( rImageHeight > 0 ); assert( rIoData != NULL );
cudaShrinkWrap_Assert ==
    /\ variant = "cuda" /\ At("entry")
    /\ pc' = IF ~ndebug /\ ( args.shape.width = 0 \/ args.shape.height = 0
                             \/ args.shape.null )
             THEN "aborted" ELSE "cu_defaults"
    /\ UNCHANGED << inputs, p, status, sigma, nElements, loopVars, buffers,
                    res, cycleLog, lastOp, lastCopy, count >>

\* the eight defaulting statements, sigma = rSigma0, nElements = width * height
cudaShrinkWrap_Defaults ==
    /\ At("cu_defaults")
    /\ p' = cudaShrinkWrapDefaults(p)
    /\ sigma' = p'.rSigma0
    /\ count' = Inc("defaulted")
    /\ nElements' = args.shape.width * args.shape.height
    /\ pc' = "cu_mallocCurData"
    /\ UNCHANGED << inputs, status, loopVars, buffers, res, cycleLog, lastOp,
                    lastCopy >>

\* mallocCudaArray returns nothing: when the device allocation fails it either
\* ends the process in its error check or comes back without a buffer
AfterMalloc(r, next) ==
    pc' \in IF res'[r] = "live" THEN { next } ELSE { next, "aborted" }

\* mallocCudaArray( &dpCurData, nElements )
cudaShrinkWrap_MallocCurData ==
    /\ At("cu_mallocCurData")
    /\ Allocate("curData", "null")
    /\ AfterMalloc("curData", "cu_mallocGPrevious")
    /\ UNCHANGED << inputs, p, status, sigma, nElements, loopVars, buffers,
                    cycleLog, lastOp, lastCopy >>

\* mallocCudaArray( &dpgPrevious, nElements )
cudaShrinkWrap_MallocGPrevious ==
    /\ At("cu_mallocGPrevious")
    /\ Allocate("gPrevious", "null")
    /\ AfterMalloc("gPrevious", "cu_mallocIntensity")
    /\ UNCHANGED << inputs, p, status, sigma, nElements, loopVars, buffers,
                    cycleLog, lastOp, lastCopy >>

\* mallocCudaArray( &dpIntensity, nElements )
cudaShrinkWrap_MallocIntensity ==
    /\ At("cu_mallocIntensity")
    /\ Allocate("dpIntensity", "null")
    /\ AfterMalloc("dpIntensity", "cu_mallocIsMasked")
    /\ UNCHANGED << inputs, p, status, sigma, nElements, loopVars, buffers,
                    cycleLog, lastOp, lastCopy >>

\* mallocCudaArray( &dpIsMasked, nElements )
cudaShrinkWrap_MallocIsMasked ==
    /\ At("cu_mallocIsMasked")
    /\ Allocate("isMasked", "null")
    /\ AfterMalloc("isMasked", "cu_copyToDevice")
    /\ UNCHANGED << inputs, p, status, sigma, nElements, loopVars, buffers,
                    cycleLog, lastOp, lastCopy >>

\* cudaMemcpyAsync( dpIntensity, rIoData, ..., cudaMemcpyHostToDevice, rStream )
cudaShrinkWrap_CopyToDevice ==
    /\ At("cu_copyToDevice")
    /\ dpIntensity' = ioData
    /\ lastCopy' = [ n |-> nElements, src |-> nElements, dst |-> nElements ]
    /\ Ran("memcpyHostToDevice", "rStream")
    /\ pc' = "cu_newHostToWrite"
    /\ UNCHANGED << inputs, p, status, sigma, nElements, loopVars, curData,
                    gPrevious, isMasked, ioData, res, cycleLog, count >>

\* float * pHostToWrite = new float[2*nElements]
cudaShrinkWrap_NewHostToWrite ==
    /\ At("cu_newHostToWrite")
    /\ Allocate("pHostToWrite", "none")
    /\ pc' = IF res'["pHostToWrite"] = "live" THEN "cu_planGToG" ELSE "thrown"
    /\ UNCHANGED << inputs, p, status, sigma, nElements, loopVars, buffers,
                    cycleLog, lastOp, lastCopy >>

\* auto fft_gToG = makeFftPlan( dpgPreviousIn, dpCurDataOut )
cudaShrinkWrap_PlanGToG ==
    /\ At("cu_planGToG")
    /\ Allocate("toFreqSpace", "none")
    /\ pc' = IF res'["toFreqSpace"] = "live"
             THEN "cu_planGPrimeTogPrime" ELSE "thrown"
    /\ UNCHANGED << inputs, p, status, sigma, nElements, loopVars, buffers,
                    cycleLog, lastOp, lastCopy >>

\* auto fft_GPrimeTogPrime = makeFftPlan( dpCurDataIn )
cudaShrinkWrap_PlanGPrimeTogPrime ==
    /\ At("cu_planGPrimeTogPrime")
    /\ Allocate("toRealSpace", "none")
    /\ pc' = IF res'["toRealSpace"] = "live" THEN "cu_copyToRealPart" ELSE "thrown"
    /\ UNCHANGED << inputs, p, status, sigma, nElements, loopVars, buffers,
                    cycleLog, lastOp, lastCopy >>

\* cudaCopyToRealPart( rKernelConfig, dpCurData, dpIntensity, nElements )
cudaShrinkWrap_CopyToRealPart ==
    /\ At("cu_copyToRealPart")
    /\ curData' = ToComplex(dpIntensity)
    /\ Ran("copyToRealPart", "rStream")
    /\ pc' = "cu_initInverseFFT"
    /\ UNCHANGED << inputs, p, status, sigma, nElements, loopVars, gPrevious,
                    isMasked, dpIntensity, ioData, res, cycleLog, lastCopy, count >>

\* fft_GPrimeTogPrime( dpCurDataIn ): the plan is not bound to rStream
\* ("don't know how to get ftPlan from lifft"), it runs on the default queue
cudaShrinkWrap_InitInverseFFT ==
    /\ At("cu_initInverseFFT")
    /\ curData' = InverseFFT(curData)
    /\ count' = Inc("ffts")
    /\ Ran("inverseFFT", "default")
    /\ pc' = "cu_loopTest"
    /\ UNCHANGED << inputs, p, status, sigma, nElements, loopVars, gPrevious,
                    isMasked, dpIntensity, ioData, res, cycleLog, lastCopy >>

\* for ( iCycleShrinkWrap = 0u; iCycleShrinkWrap < rnCycles; ... )
cudaShrinkWrap_LoopTest ==
    /\ At("cu_loopTest")
    /\ IF iCycleShrinkWrap < p.rnCycles
       THEN /\ pc' = "cu_maskNorm" /\ cycleLog' = << >> /\ count' = Inc("cycles")
            /\ currentError' = 0
       ELSE /\ pc' = "cu_copyFromRealPart" /\ cycleLog' = cycleLog /\ count' = count
            /\ currentError' = currentError
    /\ UNCHANGED << inputs, p, status, sigma, nElements, iCycleShrinkWrap,
                    iHioCycle, gAtCycleEnd, buffers,
                    res, lastOp, lastCopy >>

\* cudaComplexNormElementwise( rKernelConfig, dpIsMasked, dpCurData, nElements )
cudaShrinkWrap_MaskNorm ==
    /\ At("cu_maskNorm")
    /\ isMasked' = ComplexNorm(curData)
    /\ Ran("complexNorm", "rStream") /\ Logged("complexNorm")
    /\ pc' = "cu_maskBlur"
    /\ UNCHANGED << inputs, p, status, sigma, nElements, loopVars, curData,
                    gPrevious, dpIntensity, ioData, res, lastCopy, count >>

\* cudaGaussianBlur( dpIsMasked, rImageWidth, rImageHeight, sigma, rStream, true )
cudaShrinkWrap_MaskBlur ==
    /\ At("cu_maskBlur")
    /\ isMasked' = Blur(isMasked, sigma)
    /\ Ran("gaussianBlur", "rStream") /\ Logged("gaussianBlur")
    /\ pc' = "cu_writeBlurred"
    /\ UNCHANGED << inputs, p, status, sigma, nElements, loopVars, curData,
                    gPrevious, dpIntensity, ioData, res, lastCopy, count >>

\* #ifdef WRITE_OUT_SHRINKWRAP_DEBUG (defined in every build, as 1 or as 0):
\* ...-mask-blurred.png and ...-mask-blurred-log-scale.png
cudaShrinkWrap_WriteBlurred ==
    /\ At("cu_writeBlurred")
    /\ lastCopy' = [ n |-> nElements, src |-> nElements, dst |-> 2 * nElements ]
    /\ count' = [ count EXCEPT !.files = @ + 2 ]
    /\ Ran("writeFile", "host") /\ Logged("writeFile")
    /\ pc' = "cu_maskThreshold"
    /\ UNCHANGED << inputs, p, status, sigma, nElements, loopVars, buffers, res >>

\* cudaVectorMax, then cudaCutOff( ..., threshold, 1.0f, 0.0f ) with
\* threshold = ( iCycleShrinkWrap == 0 ? rIntensityCutOffAutoCorel
\*                                     : rIntensityCutOff ) * absMax
cudaShrinkWrap_MaskThreshold ==
    /\ At("cu_maskThreshold")
    /\ isMasked' = CutOff(isMasked, IF iCycleShrinkWrap = 0
                                    THEN p.rIntensityCutOffAutoCorel
                                    ELSE p.rIntensityCutOff)
    /\ Ran("cutOff", "rStream") /\ Logged("cutOff")
    /\ count' = Inc("maskUpdates")
    /\ pc' = "cu_sigmaUpdate"
    /\ UNCHANGED << inputs, p, status, sigma, nElements, loopVars, curData,
                    gPrevious, dpIntensity, ioData, res, lastCopy >>

\* sigma = fmax( 1.5f, ( 1.0f - rSigmaChange ) * sigma )
cudaShrinkWrap_SigmaUpdate ==
    /\ At("cu_sigmaUpdate")
    /\ sigma' = SigmaUpdate(sigma, p.rSigmaChange)
    /\ Ran("sigmaUpdate", "host") /\ Logged("sigmaUpdate")
    /\ pc' = "cu_seedGPrevious"
    /\ UNCHANGED << inputs, p, status, nElements, loopVars, buffers, res,
                    lastCopy, count >>

\* if ( iCycleShrinkWrap == 0 ) cudaMemcpyAsync( dpgPrevious, dpCurData, ...,
\*                                   cudaMemcpyDeviceToDevice, rStream )
cudaShrinkWrap_SeedGPrevious ==
    /\ At("cu_seedGPrevious")
    /\ IF iCycleShrinkWrap = 0
       THEN /\ gPrevious' = curData
            /\ lastCopy' = [ n |-> 2 * nElements, src |-> 2 * nElements,
                             dst |-> 2 * nElements ]
            /\ count' = Inc("gPrevWrites")
            /\ Ran("seedGPrevious", "rStream") /\ Logged("seedGPrevious")
       ELSE UNCHANGED << gPrevious, lastCopy, count, lastOp, cycleLog >>
    /\ pc' = "cu_writeMask"
    /\ UNCHANGED << inputs, p, status, sigma, nElements, loopVars, curData,
                    isMasked, dpIntensity, ioData, res >>

\* #ifdef WRITE_OUT_SHRINKWRAP_DEBUG: ...-a_mask.png
cudaShrinkWrap_WriteMask ==
    /\ At("cu_writeMask")
    /\ lastCopy' = [ n |-> nElements, src |-> nElements, dst |-> 2 * nElements ]
    /\ count' = Inc("files")
    /\ Ran("writeFile", "host") /\ Logged("writeFile")
    /\ iHioCycle' = 0
    /\ pc' = "cu_hioTest"
    /\ UNCHANGED << inputs, p, status, sigma, nElements, iCycleShrinkWrap,
                    currentError, gAtCycleEnd, buffers, res >>

\* an HIO loop with an off-by-one bound: iHioCycle <= rnHioCycles
cudaShrinkWrap_HioTest_OneTooMany ==
    /\ At("cu_hioTest")
    /\ pc' = IF iHioCycle <= p.rnHioCycles THEN "cu_hioConstraint" ELSE "cu_converged"
    /\ UNCHANGED << inputs, p, status, sigma, nElements, loopVars, buffers,
                    res, cycleLog, lastOp, lastCopy, count >>

\* for ( iHioCycle = 0u; iHioCycle < rnHioCycles; ++iHioCycle )
cudaShrinkWrap_HioTest ==
    /\ At("cu_hioTest")
    /\ pc' = IF iHioCycle < p.rnHioCycles THEN "cu_hioConstraint" ELSE "cu_converged"
    /\ UNCHANGED << inputs, p, status, sigma, nElements, loopVars, buffers,
                    res, cycleLog, lastOp, lastCopy, count >>

\* cudaApplyHioDomainConstraints( rKernelConfig, dpgPrevious, dpCurData,
\*                                dpIsMasked, nElements, rHioBeta )
cudaShrinkWrap_HioConstraint ==
    /\ At("cu_hioConstraint")
    /\ gPrevious' = HioConstraint(count.hioSteps + 1)
    /\ count' = [ count EXCEPT !.hioSteps = @ + 1, !.gPrevWrites = @ + 1 ]
    /\ Ran("hioConstraint", "rStream") /\ Logged("hioConstraint")
    /\ pc' = "cu_forwardFFT"
    /\ UNCHANGED << inputs, p, status, sigma, nElements, loopVars, curData,
                    isMasked, dpIntensity, ioData, res, lastCopy >>

\* fft_gToG( dpgPreviousIn, dpCurDataOut ), on the default queue
cudaShrinkWrap_ForwardFFT ==
    /\ At("cu_forwardFFT")
    /\ curData' = ForwardFFT(gPrevious)
    /\ count' = Inc("ffts")
    /\ Ran("forwardFFT", "default") /\ Logged("forwardFFT")
    /\ pc' = "cu_applyModulus"
    /\ UNCHANGED << inputs, p, status, sigma, nElements, loopVars, gPrevious,
                    isMasked, dpIntensity, ioData, res, lastCopy >>

\* cudaApplyComplexModulus( rKernelConfig, dpCurData, dpCurData, dpIntensity, n )
cudaShrinkWrap_ApplyModulus ==
    /\ At("cu_applyModulus")
    /\ curData' = ComplexModulus(curData, dpIntensity)
    /\ Ran("complexModulus", "rStream") /\ Logged("complexModulus")
    /\ pc' = "cu_writeIntensity"
    /\ UNCHANGED << inputs, p, status, sigma, nElements, loopVars, gPrevious,
                    isMasked, dpIntensity, ioData, res, lastCopy, count >>

\* #ifdef WRITE_OUT_SHRINKWRAP_DEBUG: ...-b_intensity.png, from a copy of
\* 2*nElements floats out of dpIsMasked
cudaShrinkWrap_WriteIntensity ==
    /\ At("cu_writeIntensity")
    /\ lastCopy' = [ n |-> 2 * nElements, src |-> nElements, dst |-> 2 * nElements ]
    /\ count' = Inc("files")
    /\ Ran("writeFile", "host") /\ Logged("writeFile")
    /\ pc' = "cu_inverseFFT"
    /\ UNCHANGED << inputs, p, status, sigma, nElements, loopVars, buffers, res >>

\* fft_GPrimeTogPrime( dpCurDataIn ), on the default queue
cudaShrinkWrap_InverseFFT ==
    /\ At("cu_inverseFFT")
    /\ curData' = InverseFFT(curData)
    /\ count' = Inc("ffts")
    /\ Ran("inverseFFT", "default") /\ Logged("inverseFFT")
    /\ pc' = "cu_writeObject"
    /\ UNCHANGED << inputs, p, status, sigma, nElements, loopVars, gPrevious,
                    isMasked, dpIntensity, ioData, res, lastCopy >>

\* #ifdef WRITE_OUT_SHRINKWRAP_DEBUG: ...-c_object.png (cudaMemcpy2D of the
\* real parts), then ++iHioCycle
cudaShrinkWrap_WriteObject ==
    /\ At("cu_writeObject")
    /\ lastCopy' = [ n |-> nElements, src |-> 2 * nElements, dst |-> 2 * nElements ]
    /\ count' = Inc("files")
    /\ Ran("writeFile", "host") /\ Logged("writeFile")
    /\ iHioCycle' = iHioCycle + 1
    /\ pc' = "cu_hioTest"
    /\ UNCHANGED << inputs, p, status, sigma, nElements, iCycleShrinkWrap,
                    currentError, gAtCycleEnd, buffers, res >>

\* cudaCalculateHioError and the two break statements
cudaShrinkWrap_Converged ==
    /\ At("cu_converged")
    /\ \E e \in ErrorValues :
         /\ currentError' = e
         /\ pc' = IF p.rTargetError > 0 /\ e < p.rTargetError
                  THEN "cu_copyFromRealPart"
                  ELSE IF iCycleShrinkWrap >= p.rnCycles
                       THEN "cu_copyFromRealPart"
                       ELSE "cu_writeCycleObject"
    /\ gAtCycleEnd' = curData
    /\ count' = Inc("tests")
    /\ Ran("calculateHioError", "rStream") /\ Logged("calculateHioError")
    /\ UNCHANGED << inputs, p, status, sigma, nElements, iCycleShrinkWrap,
                    iHioCycle, buffers, res, lastCopy >>

\* #ifdef WRITE_OUT_SHRINKWRAP_DEBUG: ...-d_object.png, then ++iCycleShrinkWrap
cudaShrinkWrap_WriteCycleObject ==
    /\ At("cu_writeCycleObject")
    /\ lastCopy' = [ n |-> nElements, src |-> 2 * nElements, dst |-> 2 * nElements ]
    /\ count' = Inc("files")
    /\ Ran("writeFile", "host")
    /\ iCycleShrinkWrap' = iCycleShrinkWrap + 1
    /\ pc' = "cu_loopTest"
    /\ UNCHANGED << inputs, p, status, sigma, nElements, iHioCycle,
                    currentError, gAtCycleEnd, buffers, res, cycleLog >>

\* cudaCopyFromRealPart( rKernelConfig, dpIntensity, dpCurData, nElements )
cudaShrinkWrap_CopyFromRealPart ==
    /\ At("cu_copyFromRealPart")
    /\ dpIntensity' = RealPart(curData)
    /\ Ran("copyFromRealPart", "rStream")
    /\ pc' = "cu_copyToHost"
    /\ UNCHANGED << inputs, p, status, sigma, nElements, loopVars, curData,
                    gPrevious, isMasked, ioData, res, cycleLog, lastCopy, count >>

\* cudaMemcpyAsync( rIoData, dpIntensity, ..., cudaMemcpyDeviceToHost, rStream )
cudaShrinkWrap_CopyToHost ==
    /\ At("cu_copyToHost")
    /\ ioData' = dpIntensity
    /\ lastCopy' = [ n |-> nElements, src |-> nElements, dst |-> nElements ]
    /\ count' = Inc("ioWrites")
    /\ Ran("memcpyDeviceToHost", "rStream")
    /\ pc' = "cu_synchronize"
    /\ UNCHANGED << inputs, p, status, sigma, nElements, loopVars, curData,
                    gPrevious, isMasked, dpIntensity, res, cycleLog >>

\* cudaStreamSynchronize( rStream )
cudaShrinkWrap_Synchronize ==
    /\ At("cu_synchronize")
    /\ Ran("streamSynchronize", "host")
    /\ pc' = "cu_free"
    /\ UNCHANGED << inputs, p, status, sigma, nElements, loopVars, buffers,
                    res, cycleLog, lastCopy, count >>

\* cudaFree x 4, delete[] pHostToWrite
cudaShrinkWrap_Free ==
    /\ At("cu_free")
    /\ res' = [ r \in Resources |->
                  IF r \in { "curData", "gPrevious", "dpIntensity", "isMasked",
                             "pHostToWrite" }
                  THEN Release(r) ELSE res[r] ]
    /\ pc' = "cu_return"
    /\ UNCHANGED << inputs, p, status, sigma, nElements, loopVars, buffers,
                    cycleLog, lastOp, lastCopy, count >>

\* return 0; the two plan objects go out of scope
cudaShrinkWrap_Return ==
    /\ At("cu_return")
    /\ status' = 0
    /\ res' = [ r \in Resources |->
                  IF r \in { "toFreqSpace", "toRealSpace" }
                  THEN Release(r) ELSE res[r] ]
    /\ pc' = "returned"
    /\ UNCHANGED << inputs, p, sigma, nElements, loopVars, buffers, cycleLog,
                    lastOp, lastCopy, count >>

cudaShrinkWrap ==
    \/ cudaShrinkWrap_Assert \/ cudaShrinkWrap_Defaults
    \/ cudaShrinkWrap_MallocCurData \/ cudaShrinkWrap_MallocGPrevious
    \/ cudaShrinkWrap_MallocIntensity \/ cudaShrinkWrap_MallocIsMasked
    \/ cudaShrinkWrap_CopyToDevice \/ cudaShrinkWrap_NewHostToWrite
    \/ cudaShrinkWrap_PlanGToG \/ cudaShrinkWrap_PlanGPrimeTogPrime
    \/ cudaShrinkWrap_CopyToRealPart \/ cudaShrinkWrap_InitInverseFFT
    \/ cudaShrinkWrap_LoopTest \/ cudaShrinkWrap_MaskNorm
    \/ cudaShrinkWrap_MaskBlur \/ cudaShrinkWrap_WriteBlurred
    \/ cudaShrinkWrap_MaskThreshold \/ cudaShrinkWrap_SigmaUpdate
    \/ cudaShrinkWrap_SeedGPrevious \/ cudaShrinkWrap_WriteMask
    \/ cudaShrinkWrap_HioTest \/ cudaShrinkWrap_HioConstraint
    \/ cudaShrinkWrap_ForwardFFT \/ cudaShrinkWrap_ApplyModulus
    \/ cudaShrinkWrap_WriteIntensity \/ cudaShrinkWrap_InverseFFT
    \/ cudaShrinkWrap_WriteObject \/ cudaShrinkWrap_Converged
    \/ cudaShrinkWrap_WriteCycleObject \/ cudaShrinkWrap_CopyFromRealPart
    \/ cudaShrinkWrap_CopyToHost \/ cudaShrinkWrap_Synchronize
    \/ cudaShrinkWrap_Free \/ cudaShrinkWrap_Return

\* undefined behaviour: the process dies at the faulting statement, or goes
\* on in a way the program text no longer describes
NullDereference ==
    /\ Faults(pc)
    /\ pc' \in { "crashed", "undefined" }
    /\ UNCHANGED << inputs, p, status, sigma, nElements, loopVars, buffers,
                    res, cycleLog, lastOp, lastCopy, count >>

shrinkWrap ==
    \/ shrinkWrap_CheckSize \/ shrinkWrap_CheckNull \/ shrinkWrap_Defaults
    \/ shrinkWrap_CountElements \/ shrinkWrap_AllocCurData
    \/ shrinkWrap_AllocGPrevious \/ shrinkWrap_AllocIsMasked
    \/ shrinkWrap_PlanToRealSpace \/ shrinkWrap_PlanToFreqSpace
    \/ shrinkWrap_CopyIntensity \/ shrinkWrap_InitInverseFFT
    \/ shrinkWrap_InitNorm \/ shrinkWrap_InitBlur
    \/ shrinkWrap_InitWriteBlurred \/ shrinkWrap_InitThreshold
    \/ shrinkWrap_InitWriteMask \/ shrinkWrap_CopyIntensityAgain
    \/ shrinkWrap_SeedGPrevious \/ shrinkWrap_LoopTest
    \/ shrinkWrap_MaskNorm \/ shrinkWrap_MaskBlur
    \/ shrinkWrap_MaskThreshold \/ shrinkWrap_SigmaUpdate
    \/ shrinkWrap_HioTest \/ shrinkWrap_HioConstraint
    \/ shrinkWrap_ForwardFFT \/ shrinkWrap_ApplyModulus
    \/ shrinkWrap_InverseFFT \/ shrinkWrap_Converged
    \/ shrinkWrap_CopyOut \/ shrinkWrap_Free \/ shrinkWrap_Return

Next == shrinkWrap \/ cudaShrinkWrap \/ NullDereference

Spec == Init /\ [][Next]_vars


\* ===================================================== two calls side by side
\* Two calls of the same driver on different images, in two threads of one
\* process. Every call has its own locals (buffers, plans) and its own image;
\* what the calls can share is what they name without reference to the call:
\* the files in the working directory.
Calls == { 1, 2 }

\* the statements of a call that runs one cycle with one HIO step, in order
CallPath(v) ==
    IF v = "cpu"
    THEN << "sw_allocCurData", "sw_allocGPrevious", "sw_allocIsMasked",
            "sw_planToRealSpace", "sw_planToFreqSpace", "sw_copyIntensity",
            "sw_initInverseFFT", "sw_initNorm", "sw_initBlur",
            "sw_initWriteBlurred", "sw_initThreshold", "sw_initWriteMask",
            "sw_copyIntensityAgain", "sw_seedGPrevious", "sw_maskNorm",
            "sw_maskBlur", "sw_maskThreshold", "sw_hioConstraint",
            "sw_forwardFFT", "sw_applyModulus", "sw_inverseFFT",
            "sw_converged", "sw_copyOut" >>
    ELSE << "cu_mallocCurData", "cu_mallocGPrevious", "cu_mallocIntensity",
            "cu_mallocIsMasked", "cu_copyToDevice", "cu_newHostToWrite",
            "cu_planGToG", "cu_planGPrimeTogPrime", "cu_copyToRealPart",
            "cu_initInverseFFT", "cu_maskNorm", "cu_maskBlur",
            "cu_writeBlurred", "cu_maskThreshold", "cu_seedGPrevious",
            "cu_writeMask", "cu_hioConstraint", "cu_forwardFFT",
            "cu_applyModulus", "cu_writeIntensity", "cu_inverseFFT",
            "cu_writeObject", "cu_converged", "cu_copyFromRealPart",
            "cu_copyToHost" >>

\* the names of the files a statement opens for writing, in cycle iC and HIO
\* step iHio: fixed strings and the two loop counters, nothing else
FilesAt(at, iC, iHio) ==
    CASE at = "sw_initWriteBlurred" -> { << "shrinkWrap-init-mask-blurred.dat" >> }
      [] at = "sw_initWriteMask" -> { << "shrinkWrap-init-mask.dat" >> }
      [] at = "cu_writeBlurred"
            -> { << "shrinkWrap_a_iC-", iC, "-mask-blurred.png" >>,
                 << "shrinkWrap_a_iC-", iC, "-mask-blurred-log-scale.png" >> }
      [] at = "cu_writeMask" -> { << "shrinkWrap_b_iC-", iC, "-a_mask.png" >> }
      [] at = "cu_writeIntensity"
            -> { << "shrinkWrap_b_iC-", iC, "_iHio-", iHio, "-b_intensity.png" >> }
      [] at = "cu_writeObject"
            -> { << "shrinkWrap_b_iC-", iC, "_iHio-", iHio, "-c_object.png" >> }
      [] at = "cu_writeCycleObject" -> { << "shrinkWrap_b_iC-", iC, "-d_object.png" >> }
      [] OTHER -> { }

\* what call c reads or writes at a statement: its own buffers and plans, its
\* own image, and the files
UsedAt(at, c) ==
    { << "local", c, r >> : r \in Needs(at) \ { "rIoData" } }
      \cup ( IF at \in { "sw_copyIntensity", "sw_copyIntensityAgain",
                         "sw_applyModulus", "sw_copyOut", "cu_copyToDevice",
                         "cu_copyToHost" }
             THEN { << "image", c >> } ELSE { } )
      \cup { << "file", f >> : f \in FilesAt(at, 0, 0) }

ConcurrentInit ==
    /\ CallInit
    /\ ndebug = FALSE
    /\ args = [ par |-> WithFloats(DocFloats, 1, 1),
                shape |-> [ null |-> FALSE, dims |-> 2,
                            width |-> MaxDim, height |-> MaxDim ] ]
    /\ concurrent = [ at |-> << 0, 0 >>, used |-> { } ]
    /\ LibsIdle

\* call c executes its next statement
ConcurrentStep(c) ==
    LET path == CallPath(variant)
        i == concurrent.at[c] + 1
    IN  /\ i <= Len(path)
        /\ concurrent' =
              [ at |-> [ concurrent.at EXCEPT ![c] = i ],
                used |-> concurrent.used
                            \cup { << c, r >> : r \in UsedAt(path[i], c) } ]
        /\ UNCHANGED << callVars, kernel, images, frame >>

ConcurrentNext == \E c \in Calls : ConcurrentStep(c)

ConcurrentSpec == ConcurrentInit /\ [][ConcurrentNext]_vars

\* ============================================== defaulting with -1 arguments
\* "For all the default parameters you can use -1 to denote that the default
\* value should be used" (cudaShrinkWrap.h): -1 for the parameters in S, a
\* value of the caller's choice for the others
MinusOneFloats(S) ==
    [ f \in FloatParams |-> IF f \in S THEN -One ELSE CustomFloats[f] ]
MinusOneArgs ==
    { WithFloats(MinusOneFloats(S), nc, nh) :
        S \in SUBSET FloatParams, nc \in { -1, MaxCyclesArg },
        nh \in { -1, MaxHioArg } }

\* a cudaShrinkWrap call on a valid image, up to the end of the defaulting
DefaultingInit ==
    /\ CallInitWith(MinusOneArgs)
    /\ variant = "cuda"
    /\ ~args.shape.null /\ args.shape.width > 0 /\ args.shape.height > 0
    /\ concurrent = NoCalls /\ LibsIdle

DefaultingNext == cudaShrinkWrap_Assert \/ cudaShrinkWrap_Defaults

DefaultingSpec == DefaultingInit /\ [][DefaultingNext]_vars

\* ======================================================= the mask, per pixel
\* images with pixel values: the blurred modulus is not negative
Pixels == 1..MaxPixels
BlurredImages == [ Pixels -> 0..MaxPixelValue ]

RECURSIVE MaxUpTo(_, _)
MaxUpTo(m, n) == IF n = 0 THEN 0 ELSE Max(m[n], MaxUpTo(m, n - 1))
\* cudaVectorMax / vectorMax of an image without negative values
VectorMax(m) == MaxUpTo(m, MaxPixels)

\* threshold = factor * absMax; m[i] = m[i] < threshold ? 1 : 0, with the
\* factor in units of 1e-5
CutOffPixels(m, factor) ==
    [ i \in Pixels |-> IF m[i] * One < factor * VectorMax(m) THEN 1 ELSE 0 ]

\* the relative cut-offs tried: 0, the default, one half and 1.0
CutOffArgs ==
    { WithFloats([ DocFloats EXCEPT !.rIntensityCutOffAutoCorel = c ], 1, 1) :
        c \in { 0, 4000, 50000, One } }

\* a cudaShrinkWrap call on a valid image; isMasked holds what the first
\* cycle's norm and blur leave in it
FirstMaskInit ==
    /\ CallArgs(CutOffArgs)
    /\ variant = "cuda"
    /\ ~args.shape.null /\ args.shape.width > 0 /\ args.shape.height > 0
    /\ \E m \in BlurredImages : CallLocals("entry", Uninit, Uninit, m)
    /\ concurrent = NoCalls /\ LibsIdle

\* the first cycle's threshold: iCycleShrinkWrap == 0 selects
\* rIntensityCutOffAutoCorel; cudaCutOff( ..., threshold, 1.0f, 0.0f )
FirstMask_CutOff ==
    /\ pc = "cu_mallocCurData" /\ iCycleShrinkWrap = 0
    /\ isMasked' = CutOffPixels(isMasked, p.rIntensityCutOffAutoCorel)
    /\ count' = Inc("maskUpdates")
    /\ Ran("cutOff", "rStream")
    /\ pc' = "cu_sigmaUpdate"
    /\ UNCHANGED << inputs, p, status, sigma, nElements, loopVars, curData,
                    gPrevious, dpIntensity, ioData, res, cycleLog, lastCopy >>

FirstMaskNext ==
    cudaShrinkWrap_Assert \/ cudaShrinkWrap_Defaults \/ FirstMask_CutOff

FirstMaskSpec == FirstMaskInit /\ [][FirstMaskNext]_vars

\* ============================================= the HIO constraint, per pixel
\* a faulty constraint: a real part of exactly 0 takes the feedback branch
HioPixel_ZeroIsNegative(g, gPrime, m, beta) ==
    IF m = 1 \/ gPrime.re <= 0
    THEN [ re |-> g.re * One - beta * gPrime.re,
           im |-> g.im * One - beta * gPrime.im ]
    ELSE [ re |-> gPrime.re * One, im |-> gPrime.im * One ]

\* if ( isMasked[i] == 1 or curData[i][0] < 0 ) gPrevious[i] -= rHioBeta * curData[i]
\* else gPrevious[i] = curData[i]; pixel values in whole units, the result in
\* units of 1e-5 like rHioBeta
HioPixel(g, gPrime, m, beta) ==
    IF m = 1 \/ gPrime.re < 0
    THEN [ re |-> g.re * One - beta * gPrime.re,
           im |-> g.im * One - beta * gPrime.im ]
    ELSE [ re |-> gPrime.re * One, im |-> gPrime.im * One ]

\* the values of g' and of g tried for a pixel
GPrimeValues == { [ re |-> r, im |-> i ] : r \in { -1, 0, 1 }, i \in { 0, 1 } }
GPreviousValues == { [ re |-> 1, im |-> 1 ], [ re |-> 0, im |-> -1 ] }

HioArgs == { WithFloats(fl, 1, 1) : fl \in { DocFloats, CustomFloats } }

\* shrinkWrap about to apply the HIO constraint
HioInit ==
    /\ CallArgs(HioArgs)
    /\ variant = "cpu" /\ args.shape.dims = 2
    /\ ~args.shape.null /\ args.shape.width > 0 /\ args.shape.height > 0
    /\ \E cur \in [ Pixels -> GPrimeValues ], prev \in [ Pixels -> GPreviousValues ],
          mask \in [ Pixels -> { 0, 1 } ] :
             CallLocals("sw_hioConstraint", cur, prev, mask)
    /\ concurrent = NoCalls /\ LibsIdle

\* "apply domain constraints to g' to get g", pixel by pixel
HioPixels_Constraint ==
    /\ At("sw_hioConstraint")
    /\ gPrevious' = [ i \in Pixels |->
                        HioPixel(gPrevious[i], curData[i], isMasked[i], p.rHioBeta) ]
    /\ count' = [ count EXCEPT !.hioSteps = @ + 1, !.gPrevWrites = @ + 1 ]
    /\ Ran("hioConstraint", "host") /\ Logged("hioConstraint")
    /\ pc' = "sw_forwardFFT"
    /\ UNCHANGED << inputs, p, status, sigma, nElements, loopVars, curData,
                    isMasked, dpIntensity, ioData, res, lastCopy >>

HioSpec == HioInit /\ [][HioPixels_Constraint]_vars

\* ====================================== calls with a small initial blur scale
\* rSigma0 = 1.0: positive, so not defaulted, and below the floor of the update
SmallSigmaArgs ==
    { WithFloats([ CustomFloats EXCEPT !.rSigma0 = One ], nc, nh) :
        nc \in 0..MaxCyclesArg, nh \in 0..MaxHioArg }

SmallSigmaInit == CallInitWith(SmallSigmaArgs) /\ concurrent = NoCalls /\ LibsIdle

SmallSigmaSpec == SmallSigmaInit /\ [][Next]_vars

\* ======================================================= calcGaussianKernel
\* rSigma is counted in quarters, the factor 2.884402748387961466 of the
\* kernel reach in 1e-4; that is exact for every rSigma up to MaxSigma
SigmaUnit == 4
KernelReach == 28844
ReachUnit == 10000
Ceil(num, den) == -((-num) \div den)
\* ceil( 2.884402748387961466 * rSigma - 0.5 )
NNeighbors(rSigma) ==
    Ceil(2 * KernelReach * rSigma - SigmaUnit * ReachUnit, 2 * SigmaUnit * ReachUnit)

\* IEEE values: not a number, the infinities, the exact numbers 0 and 1, and
\* every other finite value as the expression that computes it
NaN == <<"nan">>
PosInf == <<"inf">>
NegInf == <<"-inf">>
Num(x) == <<"num", x>>
\* a = 1.0/( sqrt(2.0*M_PI)*rSigma ) and b = -1.0/( 2.0*rSigma*rSigma )
KernelA(rSigma) == IF rSigma = 0 THEN PosInf ELSE <<"a", rSigma>>
KernelB(rSigma) == IF rSigma = 0 THEN NegInf ELSE <<"b", rSigma>>
\* a*exp( i*i*b )
KernelWeight(a, b, i) ==
    LET arg == IF b = NegInf THEN (IF i = 0 THEN NaN ELSE NegInf)
               ELSE IF i = 0 THEN Num(0) ELSE <<"scale", i * i, b>>
        e   == IF arg = NaN THEN NaN
               ELSE IF arg = NegInf THEN Num(0)
               ELSE IF arg = Num(0) THEN Num(1) ELSE <<"exp", arg>>
    IN  IF e = NaN \/ (a = PosInf /\ e = Num(0)) THEN NaN
        ELSE IF a = PosInf THEN PosInf
        ELSE IF e = Num(0) THEN Num(0)
        ELSE IF e = Num(1) THEN a ELSE <<"mul", a, e>>
\* x + y and x / y
Plus(x, y) ==
    IF x = NaN \/ y = NaN THEN NaN
    ELSE IF x = PosInf \/ y = PosInf THEN PosInf
    ELSE IF x = Num(0) THEN y ELSE IF y = Num(0) THEN x ELSE <<"add", x, y>>
Quotient(x, y) ==
    IF x = NaN \/ y = NaN \/ (x = PosInf /\ y = PosInf)
       \/ (x = Num(0) /\ y = Num(0)) THEN NaN
    ELSE IF x = PosInf \/ y = Num(0) THEN PosInf
    ELSE IF x = Num(0) \/ y = PosInf THEN Num(0)
    ELSE IF x = y THEN Num(1) ELSE <<"div", x, y>>

\* a call with a buffer of rnWeights elements, or with no buffer
KernelInit ==
    /\ CallArgs({ WithFloats(DocFloats, 1, 1) }) /\ variant = "cpu"
    /\ args.shape = [ null |-> FALSE, dims |-> 2, width |-> MaxDim, height |-> MaxDim ]
    /\ CallLocals("none", Uninit, Uninit, Uninit)
    /\ concurrent = NoCalls /\ images = NoImages /\ frame = NoFrame
    /\ \E s \in -1..MaxSigma, n \in 0..MaxWeights, null \in BOOLEAN, eps \in { 0, 1 } :
          kernel = [ pc |-> "entry", rSigma |-> s, null |-> null,
                     rWeights |-> [ j \in 0..(n - 1) |-> Uninit ], rnWeights |-> n,
                     rMinAbsoluteError |-> eps, nNeighbors |-> 0, nWeights |-> 0,
                     a |-> Num(0), b |-> Num(0), i |-> 0,
                     sumWeightings |-> Num(0), written |-> { }, result |-> 0 ]

KernelStep(next) ==
    UNCHANGED callVars /\ UNCHANGED << concurrent, images, frame >> /\ kernel' = next

\* assert( rWeights != NULL ); assert( rMinAbsoluteError > 0 ); assert( rSigma >= 0 )
calcGaussianKernel_Assert ==
    /\ kernel.pc = "entry"
    /\ KernelStep([ kernel EXCEPT !.pc =
          IF ~ndebug /\ (kernel.null \/ kernel.rMinAbsoluteError <= 0 \/ kernel.rSigma < 0)
          THEN "aborted" ELSE "size" ])

\* nNeighbors, nWeights = 2*nNeighbors + 1; assert( nWeights > 0 )
calcGaussianKernel_Size ==
    /\ kernel.pc = "size"
    /\ LET n == NNeighbors(kernel.rSigma)
       IN  KernelStep([ kernel EXCEPT !.nNeighbors = n, !.nWeights = 2 * n + 1,
                           !.pc = IF ~ndebug /\ 2 * n + 1 <= 0 THEN "aborted" ELSE "query" ])

\* a faulty query test: nWeights >= rnWeights
calcGaussianKernel_Query_NotStrict ==
    /\ kernel.pc = "query"
    /\ IF kernel.null \/ ToUnsigned(kernel.nWeights) >= kernel.rnWeights
       THEN KernelStep([ kernel EXCEPT !.result = kernel.nWeights, !.pc = "returned" ])
       ELSE KernelStep([ kernel EXCEPT !.pc = "coefficients" ])

\* if ( rWeights == NULL or (unsigned) nWeights > rnWeights ) return nWeights
calcGaussianKernel_Query ==
    /\ kernel.pc = "query"
    /\ IF kernel.null \/ ToUnsigned(kernel.nWeights) > kernel.rnWeights
       THEN KernelStep([ kernel EXCEPT !.result = kernel.nWeights, !.pc = "returned" ])
       ELSE KernelStep([ kernel EXCEPT !.pc = "coefficients" ])

\* sumWeightings = 0; a and b; int i = -nNeighbors
calcGaussianKernel_Coefficients ==
    /\ kernel.pc = "coefficients"
    /\ KernelStep([ kernel EXCEPT !.sumWeightings = Num(0),
                       !.a = KernelA(kernel.rSigma), !.b = KernelB(kernel.rSigma),
                       !.i = -kernel.nNeighbors, !.pc = "weights" ])

\* for ( i = -nNeighbors; i <= nNeighbors; ++i ) { rWeights[nNeighbors+i] =
\* weight; sumWeightings += weight; }
calcGaussianKernel_Weight ==
    /\ kernel.pc = "weights"
    /\ IF kernel.i <= kernel.nNeighbors
       THEN LET weight == KernelWeight(kernel.a, kernel.b, kernel.i)
                at     == kernel.nNeighbors + kernel.i
            IN  KernelStep([ kernel EXCEPT !.rWeights[at] = weight,
                                !.written = @ \cup { at },
                                !.sumWeightings = Plus(@, weight), !.i = @ + 1 ])
       ELSE KernelStep([ kernel EXCEPT !.i = -kernel.nNeighbors, !.pc = "normalise" ])

\* for ( i = -nNeighbors; i <= nNeighbors; ++i ) rWeights[nNeighbors+i] /= sumWeightings
calcGaussianKernel_Normalise ==
    /\ kernel.pc = "normalise"
    /\ IF kernel.i <= kernel.nNeighbors
       THEN LET at == kernel.nNeighbors + kernel.i
            IN  KernelStep([ kernel EXCEPT
                                !.rWeights[at] = Quotient(@, kernel.sumWeightings),
                                !.written = @ \cup { at }, !.i = @ + 1 ])
       ELSE KernelStep([ kernel EXCEPT !.result = kernel.nWeights, !.pc = "returned" ])

calcGaussianKernel ==
    \/ calcGaussianKernel_Assert \/ calcGaussianKernel_Size
    \/ calcGaussianKernel_Query \/ calcGaussianKernel_Coefficients
    \/ calcGaussianKernel_Weight \/ calcGaussianKernel_Normalise

KernelSpec == KernelInit /\ [][calcGaussianKernel]_vars

\* ========================================================= the 2D blur test
\* The two passes are called by testGaussianBlur2d; what a pass computes is
\* taken from the description of the blur: every element becomes the weighted
\* sum of its neighbours along one axis, "if the kernel reaches an edge, the
\* edge colors is extended beyond the edge".
Side == 1..MaxSide
Cells == Side \X Side
\* a field of one value with up to MaxImpulses cells of the other value
TestImages ==
    { [ q \in Cells |-> IF q \in Z THEN 1 - bg ELSE bg ] :
        Z \in { Y \in SUBSET Cells : Cardinality(Y) <= MaxImpulses }, bg \in { 0, 1 } }
\* symmetric kernels, as the numerators of weights whose denominator is their
\* sum: a pass leaves the array multiplied by that sum, with nothing rounded
TestKernels == { << 1 >>, << 1, 2, 1 >>, << 1, 4, 6, 4, 1 >> }
Clamp(i) == IF i < 1 THEN 1 ELSE IF i > MaxSide THEN MaxSide ELSE i
RECURSIVE WeightedSum(_, _, _, _)
\* the sum over the first k weights of w[j] * x[i + j - n - 1], 2n+1 = Len(w)
WeightedSum(x, w, i, k) ==
    IF k = 0 THEN 0
    ELSE w[k] * x[Clamp(i + k - ((Len(w) - 1) \div 2) - 1)] + WeightedSum(x, w, i, k - 1)
ApplyKernel(x, w) == [ i \in Side |-> WeightedSum(x, w, i, Len(w)) ]
\* every row blurred
gaussianBlurHorizontal(data, w) ==
    [ q \in Cells |-> ApplyKernel([ c \in Side |-> data[<< q[1], c >>] ], w)[q[2]] ]
\* every column blurred
gaussianBlurVertical(data, w) ==
    [ q \in Cells |-> ApplyKernel([ r \in Side |-> data[<< r, q[2] >>] ], w)[q[1]] ]

Transpose(data) == [ q \in Cells |-> data[<< q[2], q[1] >>] ]

\* testGaussianBlur2d is about to run on an array and on its transpose
BlurInit ==
    /\ CallArgs({ WithFloats(DocFloats, 1, 1) }) /\ variant = "cpu" /\ ndebug = FALSE
    /\ args.shape = [ null |-> FALSE, dims |-> 2, width |-> MaxDim, height |-> MaxDim ]
    /\ CallLocals("none", Uninit, Uninit, Uninit)
    /\ concurrent = NoCalls /\ kernel = NoKernel /\ frame = NoFrame
    /\ \E d \in TestImages, w \in TestKernels :
          images = [ pc |-> [ data |-> "horizontal", mirrored |-> "horizontal" ],
                     input |-> d, data |-> d, mirrored |-> Transpose(d), weights |-> w ]

BlurStep(next) ==
    UNCHANGED callVars /\ UNCHANGED << concurrent, kernel, frame >> /\ images' = next

\* gaussianBlurHorizontal( data, nDataX, nDataY, sigma )
testGaussianBlur2d_Horizontal ==
    \E a \in { "data", "mirrored" } :
       /\ images.pc[a] = "horizontal"
       /\ BlurStep([ images EXCEPT ![a] = gaussianBlurHorizontal(@, images.weights),
                                   !.pc[a] = "vertical" ])

\* a faulty test: the second call is gaussianBlurHorizontal again
testGaussianBlur2d_Vertical_HorizontalAgain ==
    \E a \in { "data", "mirrored" } :
       /\ images.pc[a] = "vertical"
       /\ BlurStep([ images EXCEPT ![a] = gaussianBlurHorizontal(@, images.weights),
                                   !.pc[a] = "done" ])

\* gaussianBlurVertical( data, nDataX, nDataY, sigma )
testGaussianBlur2d_Vertical ==
    \E a \in { "data", "mirrored" } :
       /\ images.pc[a] = "vertical"
       /\ BlurStep([ images EXCEPT ![a] = gaussianBlurVertical(@, images.weights),
                                   !.pc[a] = "done" ])

testGaussianBlur2d == testGaussianBlur2d_Horizontal \/ testGaussianBlur2d_Vertical

BlurSpec == BlurInit /\ [][testGaussianBlur2d]_vars

\* =============================================== calls that are not held up
\* one choice of the float parameters and every number of cycles and steps
TerminationArgs ==
    { WithFloats(CustomFloats, nc, nh) : nc \in 0..MaxCyclesArg, nh \in 0..MaxHioArg }

TerminationInit == CallInitWith(TerminationArgs) /\ concurrent = NoCalls /\ LibsIdle

\* the thread of the call is scheduled as long as it has a statement to execute
FairSpec == TerminationInit /\ [][Next]_vars /\ WF_vars(Next)

\* ================================================ the two drivers compared
\* A caller runs shrinkWrap up to a statement, keeps what the call holds there
\* and then calls cudaShrinkWrap with the same arguments.
CompareArgs ==
    { WithFloats(CustomFloats, nc, nh) : nc \in 1..MaxCyclesArg, nh \in 1..MaxHioArg }

CompareInit ==
    /\ CallInitWith(CompareArgs)
    /\ variant = "cpu"
    /\ args.shape \in ShapeArgs("cuda")
    /\ concurrent = NoCalls /\ LibsIdle

\* the factor and the blur scale a finished mask update has used
UpdateUsed(mask) == [ factor |-> mask[3], sigma |-> mask[2][3] ]

\* cudaShrinkWrap( rKernelConfig, rIoData, rImageWidth, rImageHeight, ... )
\* with the arguments shrinkWrap was called with
CompareDrivers ==
    /\ frame = NoFrame /\ variant = "cpu"
    /\ \/ /\ pc = "sw_hioConstraint" /\ count.hioSteps = 0
          /\ frame' = [ pc |-> "firstHio", iCycle |-> 0,
                        seen |-> << isMasked, gPrevious, curData >> ]
       \/ /\ pc = "sw_sigmaUpdate" /\ iCycleShrinkWrap >= 1
          /\ frame' = [ pc |-> "maskUpdate", iCycle |-> iCycleShrinkWrap,
                        seen |-> UpdateUsed(isMasked) ]
    /\ variant' = "cuda"
    /\ p' = PassedByValue(args.par)
    /\ pc' = "entry" /\ status' = "none" /\ sigma' = 0 /\ nElements' = 0
    /\ iCycleShrinkWrap' = 0 /\ iHioCycle' = 0 /\ currentError' = 0
    /\ curData' = Uninit /\ gPrevious' = Uninit /\ isMasked' = Uninit
    /\ dpIntensity' = Uninit /\ ioData' = Intensity
    /\ res' = [ r \in Resources |-> "none" ]
    /\ cycleLog' = << >> /\ lastOp' = NoOp /\ lastCopy' = NoCopy
    /\ count' = NoCount /\ gAtCycleEnd' = Uninit
    /\ UNCHANGED << ndebug, args, concurrent, kernel, images >>

CompareNext == Next \/ CompareDrivers

CompareSpec == CompareInit /\ [][CompareNext]_vars

\* ===================================================== the other functions
\* nothing but the function in frame is running
FrameIdle ==
    /\ CallArgs({ WithFloats(DocFloats, 1, 1) }) /\ variant = "cpu"
    /\ args.shape = [ null |-> FALSE, dims |-> 2, width |-> MaxDim, height |-> MaxDim ]
    /\ CallLocals("none", Uninit, Uninit, Uninit)
    /\ concurrent = NoCalls /\ kernel = NoKernel /\ images = NoImages

FrameStep(next) ==
    UNCHANGED callVars /\ UNCHANGED << concurrent, kernel, images >> /\ frame' = next

\* ----------------------------------------------------------------- fftShift
MaxExtent == 5

\* ( ( iy+Ny/2 ) % Ny ) * Nx + ( ( ix+Nx/2 ) % Nx )
ShiftedIndex(ix, iy, Nx, Ny) ==
    ((iy + Ny \div 2) % Ny) * Nx + ((ix + Nx \div 2) % Nx)

\* std::swap( data[a], data[b] )
Swapped(data, a, b) == [ data EXCEPT ![a] = data[b], ![b] = data[a] ]

\* a row-major array of Nx * Ny elements, every element with a value of its
\* own: the index it has before the call
FftShiftInit ==
    /\ FrameIdle
    /\ \E nx \in 1..MaxExtent, ny \in 1..MaxExtent :
          frame = [ pc |-> "fftShift", Nx |-> nx, Ny |-> ny, iy |-> 0, ix |-> 0,
                    data |-> [ k \in 0..(nx * ny - 1) |-> k ] ]

\* one pass of the inner loop body, then ++ix, and ++iy after the last column
fftShift_Swap ==
    /\ frame.pc = "fftShift"
    /\ frame.iy < frame.Ny \div 2
    /\ LET index == ShiftedIndex(frame.ix, frame.iy, frame.Nx, frame.Ny)
           last == frame.ix + 1 = frame.Nx
       IN  FrameStep([ frame EXCEPT
                          !.data = Swapped(@, frame.iy * frame.Nx + frame.ix, index),
                          !.ix = IF last THEN 0 ELSE @ + 1,
                          !.iy = IF last THEN @ + 1 ELSE @ ])

\* iy < Ny/2 fails: the function returns
fftShift_Return ==
    /\ frame.pc = "fftShift"
    /\ ~(frame.iy < frame.Ny \div 2)
    /\ FrameStep([ frame EXCEPT !.pc = "shifted" ])

fftShift == fftShift_Swap \/ fftShift_Return

FftShiftSpec == FftShiftInit /\ [][fftShift]_vars

\* ----------------------------------------------------- calcGaussianKernel2d
\* Only the element numbers the function uses are kept: touched is the set of
\* the i with rWeights[i] read or written so far.
Kernel2dInit ==
    /\ FrameIdle
    /\ \E nx \in 1..MaxExtent, ny \in 1..MaxExtent :
          frame = [ pc |-> "fill", rnWeightsX |-> nx, rnWeightsY |-> ny,
                    ix |-> 0, iy |-> 0, i |-> 0, touched |-> { } ]

\* for ix < rnWeightsX, for iy < rnWeightsY:
\*     rWeights[ iy * rnWeightsX + ix ] = weight
calcGaussianKernel2d_Fill ==
    /\ frame.pc = "fill"
    /\ frame.ix < frame.rnWeightsX
    /\ LET last == frame.iy + 1 = frame.rnWeightsY
       IN  FrameStep([ frame EXCEPT
                          !.touched = @ \cup { frame.iy * frame.rnWeightsX + frame.ix },
                          !.iy = IF last THEN 0 ELSE @ + 1,
                          !.ix = IF last THEN @ + 1 ELSE @ ])

\* ix < rnWeightsX fails; auto i = 0u
calcGaussianKernel2d_Filled ==
    /\ frame.pc = "fill"
    /\ ~(frame.ix < frame.rnWeightsX)
    /\ FrameStep([ frame EXCEPT !.pc = "normalise", !.i = 0 ])

\* for ( auto i = 0u; i <= rnWeightsX * rnWeightsY; ++i )
\*     rWeights[i] /= sumWeightings
calcGaussianKernel2d_Normalise ==
    /\ frame.pc = "normalise"
    /\ frame.i <= frame.rnWeightsX * frame.rnWeightsY
    /\ FrameStep([ frame EXCEPT !.touched = @ \cup { frame.i }, !.i = @ + 1 ])

calcGaussianKernel2d_Return ==
    /\ frame.pc = "normalise"
    /\ ~(frame.i <= frame.rnWeightsX * frame.rnWeightsY)
    /\ FrameStep([ frame EXCEPT !.pc = "normalised" ])

calcGaussianKernel2d ==
    \/ calcGaussianKernel2d_Fill \/ calcGaussianKernel2d_Filled
    \/ calcGaussianKernel2d_Normalise \/ calcGaussianKernel2d_Return

Kernel2dSpec == Kernel2dInit /\ [][calcGaussianKernel2d]_vars

\* ---------------------------------------------------- testCalculateHioError
\* A packed word is the set of the numbers of its set bits, bit 0 being the
\* least significant one. The test's mask is random; here every word of the
\* packed mask is the same word, so the mask repeats after WordBits pixels.
WordBits == 32
WordBitNumbers == 0..(WordBits - 1)
\* 0, 0xFFFFFFFF, 0x33333333 (testUnpackBitMask), 0x80000000, 1
TestWords ==
    { { }, WordBitNumbers, { b \in WordBitNumbers : b % 4 \in { 0, 1 } },
      { WordBits - 1 }, { 0 } }
\* values of nElements the loop goes through, in ascending order
SamplingPoints == << 2, 3, 31, 32, 33, 3355443, 3355445, 16777216 >>
\* floats below 16777216 hold every integer; "higher round to multiple of 2"
FloatExact == 16777216
pythagoreanTriple == [ a |-> 3, b |-> 4, c |-> 5 ]

\* a faulty unpacking: least significant bit first
UnpackedElement_LsbFirst(word, i) == IF (i % WordBits) \in word THEN One ELSE 0

\* *iElem = T_MASK( (*iPacked & bitMask) != 0 ) with bitMask = 0x01 <<
\* ( nBits-1 ) shifted right once per element: the value of rMask[i], a float
UnpackedElement(word, i) ==
    IF (WordBits - 1 - (i % WordBits)) \in word THEN One ELSE 0

\* pIsMaskedChar[i] = pIsMasked[i]
ToChar(x) == x \div One
\* one period of the mask in its three representations, 1 where masked
FloatMask(word) == [ i \in WordBitNumbers |-> IF UnpackedElement(word, i) = One THEN 1 ELSE 0 ]
CharMask(word) == [ i \in WordBitNumbers |-> IF ToChar(UnpackedElement(word, i)) = 1 THEN 1 ELSE 0 ]
PackedMask(word) == [ i \in WordBitNumbers |-> IF (WordBits - 1 - i) \in word THEN 1 ELSE 0 ]

RECURSIVE CountUpTo(_, _)
\* how many of the first n pixels of a period are masked
CountUpTo(m, n) == IF n = 0 THEN 0 ELSE m[n - 1] + CountUpTo(m, n - 1)
\* n_masked over the first n pixels: whole periods, then the rest
MaskedPixels(m, n) ==
    (n \div WordBits) * CountUpTo(m, WordBits) + CountUpTo(m, n % WordBits)
\* sqrt( re^2 + im^2 ) of the data at a masked pixel
MaskedNorm ==
    CHOOSE r \in 0..(pythagoreanTriple.a + pythagoreanTriple.b) :
        r * r = pythagoreanTriple.a * pythagoreanTriple.a
                    + pythagoreanTriple.b * pythagoreanTriple.b
\* the floats next to x: x itself where a float holds it
FloatsNear(x) ==
    IF x <= FloatExact THEN { x }
    ELSE LET ulp == IF x < 2 * FloatExact THEN 2
                    ELSE IF x < 4 * FloatExact THEN 4 ELSE 8
         IN  { (x \div ulp) * ulp, ((x + ulp - 1) \div ulp) * ulp }
\* the pairs ( totalError, nMaskedPixels ) a reduction over mask m may return:
\* the sum of the norms is exact while every partial sum is, a float near
\* the sum otherwise
HioErrors(m, nElem) ==
    LET n == MaskedPixels(m, nElem)
    IN  { [ totalError |-> e, nMaskedPixels |-> n ] : e \in FloatsNear(MaskedNorm * n) }

\* the assertions after a call of the reduction
HioErrorAsserts(r, nLast, nElem) ==
    r.totalError < FloatExact =>
        /\ nLast <= r.nMaskedPixels
        /\ r.totalError % pythagoreanTriple.c = 0
        /\ r.nMaskedPixels * pythagoreanTriple.c = r.totalError
        /\ r.nMaskedPixels <= nElem

ReduceInit ==
    /\ FrameIdle
    /\ \E w \in TestWords :
          frame = [ pc |-> "float", word |-> w, iPoint |-> 1,
                    nLastMaskedPixels |-> 0, nMaskedPixels |-> 0, totalError |-> 0,
                    results |-> << >> ]

\* one call with mask m, then its assertions; control goes on to next
HioErrorCall(m, results, nLast, next) ==
    \E r \in HioErrors(m, SamplingPoints[frame.iPoint]) :
       FrameStep([ frame EXCEPT
          !.totalError = r.totalError, !.nMaskedPixels = r.nMaskedPixels,
          !.nLastMaskedPixels = nLast, !.results = Append(results, r),
          !.pc = IF ~ndebug /\ ~HioErrorAsserts(r, nLast, SamplingPoints[frame.iPoint])
                 THEN "aborted" ELSE next ])

\* nLastMaskedPixels = nMaskedPixels; cudaCalculateHioError( .., dpIsMasked, .. )
testCalculateHioError_Float ==
    /\ frame.pc = "float"
    /\ HioErrorCall(FloatMask(frame.word), << >>, frame.nMaskedPixels, "char")

\* cudaCalculateHioError( .., dpIsMaskedChar, .. )
testCalculateHioError_Char ==
    /\ frame.pc = "char"
    /\ HioErrorCall(CharMask(frame.word), frame.results, frame.nLastMaskedPixels, "packed")

\* cudaCalculateHioErrorBitPacked( .., dpBitMasked, .. )
testCalculateHioError_BitPacked ==
    /\ frame.pc = "packed"
    /\ HioErrorCall(PackedMask(frame.word), frame.results, frame.nLastMaskedPixels, "next")

\* else break; and the next sampling point
testCalculateHioError_Next ==
    /\ frame.pc = "next"
    /\ FrameStep(IF frame.totalError < FloatExact /\ frame.iPoint < Len(SamplingPoints)
                 THEN [ frame EXCEPT !.iPoint = @ + 1, !.results = << >>,
                                     !.pc = "float" ]
                 ELSE [ frame EXCEPT !.pc = "done" ])

testCalculateHioError ==
    \/ testCalculateHioError_Float \/ testCalculateHioError_Char
    \/ testCalculateHioError_BitPacked \/ testCalculateHioError_Next

ReduceSpec == ReduceInit /\ [][testCalculateHioError]_vars

\* ------------------------------------------------------------ unpackBitMask
MaxWords == 2
\* 0x33333333 (testUnpackBitMask), 0x80000000, 1
UnpackWords ==
    { { b \in WordBitNumbers : b % 4 \in { 0, 1 } }, { WordBits - 1 }, { 0 } }
\* element counts around the multiples of nBits; testUnpackBitMask has nBits - 2
UnpackSizes ==
    ({ 0, 1 } \cup { k * WordBits + d : k \in 1..MaxWords, d \in { -2, -1, 0, 1 } })
        \cap 0..(MaxWords * WordBits)
\* ceilDiv( a, b )
ceilDiv(a, b) == (a + b - 1) \div b
\* what the elements hold before the call
Untouched == -1

\* rPackedBits with one word more than any of the sizes needs, rMask with two
\* elements more than nElements, as in testUnpackBitMask; read and written
\* are the numbers of the words read and of the elements written so far
UnpackInit ==
    /\ FrameIdle
    /\ \E words \in [ 0..MaxWords -> UnpackWords ], n \in UnpackSizes :
          frame = [ pc |-> "outer", rPackedBits |-> words, nElements |-> n,
                    rMask |-> [ i \in 0..(n + 1) |-> Untouched ],
                    iElem |-> 0, iPacked |-> 0, iBit |-> 0, bitMask |-> 0,
                    read |-> { }, written |-> { } ]

\* for ( auto iElem = rMask; iElem < nElem; ... ) and the first statements of
\* its body: bitMask = T_PACKED(0x01) << ( nBits-1 ), iBit = 0u. bitMask is
\* kept as the number of its one set bit, -1 when the bit is shifted out.
unpackBitMask_Outer ==
    /\ frame.pc = "outer"
    /\ FrameStep(IF frame.iElem < frame.nElements
                 THEN [ frame EXCEPT !.pc = "inner", !.bitMask = WordBits - 1,
                                     !.iBit = 0 ]
                 ELSE [ frame EXCEPT !.pc = "unpacked" ])

\* a body of the inner loop that leaves the outer loop's counter as it is
unpackBitMask_Leave_SameWord ==
    /\ frame.pc = "inner"
    /\ ~(frame.iBit < WordBits) \/ frame.iElem >= frame.nElements
    /\ FrameStep([ frame EXCEPT !.pc = "outer" ])

\* iBit < nBits fails, or if ( iElem >= nElem ) break; then ++iPacked
unpackBitMask_Leave ==
    /\ frame.pc = "inner"
    /\ ~(frame.iBit < WordBits) \/ frame.iElem >= frame.nElements
    /\ FrameStep([ frame EXCEPT !.pc = "outer", !.iPacked = @ + 1 ])

\* the three asserts, *iElem = T_MASK( (*iPacked & bitMask) != 0 ),
\* bitMask >>= 1, then ++iBit, ++iElem
unpackBitMask_Element ==
    /\ frame.pc = "inner"
    /\ frame.iBit < WordBits /\ frame.iElem < frame.nElements
    /\ IF /\ ~ndebug
          /\ \/ frame.bitMask < 0
             \/ ~(frame.iElem < frame.nElements)
             \/ ~(frame.iPacked < ceilDiv(frame.nElements, WordBits))
       THEN FrameStep([ frame EXCEPT !.pc = "aborted" ])
       ELSE FrameStep([ frame EXCEPT
               !.rMask[frame.iElem] =
                   IF frame.bitMask \in frame.rPackedBits[frame.iPacked]
                   THEN 1 ELSE 0,
               !.read = @ \cup { frame.iPacked },
               !.written = @ \cup { frame.iElem },
               !.bitMask = @ - 1,
               !.iBit = @ + 1,
               !.iElem = @ + 1 ])

unpackBitMask == unpackBitMask_Outer \/ unpackBitMask_Leave \/ unpackBitMask_Element

UnpackSpec == UnpackInit /\ [][unpackBitMask]_vars

\* ============================================================== properties
Terminal == { "returned", "aborted", "thrown", "crashed", "undefined" }
Failed == { "aborted", "thrown", "crashed", "undefined" }
\* positions after the shrink-wrap loop
AfterLoop == { "sw_copyOut", "sw_free", "sw_return", "cu_copyFromRealPart",
               "cu_copyToHost", "cu_synchronize", "cu_free", "cu_return",
               "returned" }
\* positions between a convergence test that did not break and the loop test
LoopEnd == { "sw_loopTest", "cu_writeCycleObject", "cu_loopTest" }
\* positions after the caller's array has been written
AfterCopyOut == { "sw_free", "sw_return", "cu_synchronize", "cu_free",
                  "cu_return", "returned" }

\* ---------------------------------------------------------------------- C1
MaskUpdateOps == << "complexNorm", "gaussianBlur", "cutOff", "sigmaUpdate" >>
HioStepOps == << "hioConstraint", "forwardFFT", "complexModulus", "inverseFFT" >>
AlgorithmOps == { MaskUpdateOps[i] : i \in 1..4 } \cup { HioStepOps[i] : i \in 1..4 }
                    \cup { "calculateHioError" }
IsAlgorithmOp(o) == o \in AlgorithmOps
\* the operations of the current cycle, file output and seeding left out
CycleOps == SelectSeq(cycleLog, IsAlgorithmOp)
\* the i-th operation of a cycle with n HIO steps
ExpectedOp(i, n) ==
    IF i <= 4 THEN MaskUpdateOps[i]
    ELSE IF i <= 4 + 4 * n THEN HioStepOps[((i - 5) % 4) + 1]
    ELSE "calculateHioError"
CycleLength(n) == 4 + 4 * n + 1

\* C1: in both drivers the operations of every outer cycle are, in this order,
\* the mask update (norm, blur, threshold, sigma update), exactly rnHioCycles
\* HIO steps (constraint, forward FFT, modulus projection, inverse FFT) and one
\* convergence test; a cycle that has been tested is complete, a new cycle
\* begins only after the previous one was tested, and no cycle is without its
\* mask update.
C1_CycleOrder ==
    LET ops == CycleOps
        full == CycleLength(p.rnHioCycles)
    IN  /\ Len(ops) <= full
        /\ \A i \in 1..Len(ops) : ops[i] = ExpectedOp(i, p.rnHioCycles)
        /\ count.tests \in { count.cycles - 1, count.cycles } \cap Nat
        /\ count.maskUpdates \in { count.cycles - 1, count.cycles } \cap Nat
        /\ count.tests <= count.maskUpdates
        /\ (count.cycles > 0 /\ count.tests = count.cycles) => Len(ops) = full
        /\ (count.tests < count.cycles) => Len(ops) < full
        /\ count.hioSteps <= count.maskUpdates * p.rnHioCycles

\* the second cycle of a cudaShrinkWrap run with two HIO steps has been tested
C1_Witness ==
    /\ variant = "cuda" /\ p.rnHioCycles = 2
    /\ count.cycles = 2 /\ count.tests = 2 /\ count.hioSteps = 4
    /\ Len(CycleOps) = 13

\* ---------------------------------------------------------------------- C2
\* the cycle run last has been tested and its error is below the target
ConvergedNow ==
    /\ count.cycles > 0 /\ count.tests = count.cycles
    /\ currentError < p.rTargetError
\* the cycle run last has been tested, without success, and cycles are left
MustContinue ==
    /\ count.cycles > 0 /\ count.tests = count.cycles
    /\ currentError >= p.rTargetError
    /\ count.cycles < p.rnCycles

C2_Inv ==
    /\ count.defaulted = 1 => count.cycles <= p.rnCycles
    /\ count.defaulted = 0 => count.cycles = 0
    /\ ConvergedNow => pc \in AfterLoop
    /\ MustContinue => /\ pc \in LoopEnd
                       /\ pc # "cu_writeCycleObject" => iCycleShrinkWrap = count.cycles
                       /\ pc = "cu_writeCycleObject" => iCycleShrinkWrap + 1 = count.cycles

C2_Step ==
    /\ ConvergedNow => /\ count'.maskUpdates = count.maskUpdates
                       /\ count'.hioSteps = count.hioSteps
                       /\ count'.ffts = count.ffts
                       /\ count'.cycles = count.cycles
                       /\ count'.tests = count.tests
    /\ (MustContinue /\ pc \in { "sw_loopTest", "cu_loopTest" })
          => count'.cycles = count.cycles + 1

\* C2: the outer loop runs at most rnCycles cycles (the value after the
\* defaulting); once a cycle's error is strictly below rTargetError no mask
\* update, HIO step, FFT or cycle follows; when the error is not below the
\* target and fewer than rnCycles cycles have run, the next cycle is started.
C2_LoopTermination == [] C2_Inv /\ [][C2_Step]_vars

\* a run allowed two cycles has returned after its first, converged, cycle
C2_Witness ==
    /\ pc = "returned" /\ p.rnCycles = 2
    /\ count.cycles = 1 /\ count.tests = 1
    /\ currentError < p.rTargetError

\* ---------------------------------------------------------------------- C3
DefaultedParams == FloatParams \cup { "rnHioCycles" }
IsSentinel(f, x) == IF f = "rnHioCycles" THEN x = 0 ELSE x <= 0
\* the arguments with every sentinel among the seven replaced by the default
\* that the declaration documents
Explicit(a) ==
    [ f \in DOMAIN a |->
        IF f \in DefaultedParams /\ IsSentinel(f, a[f]) THEN DocDefaults[f] ELSE a[f] ]
Effective(v, a) == IF v = "cpu" THEN shrinkWrapDefaults(a) ELSE cudaShrinkWrapDefaults(a)

C4_ZeroCyclesMeansTwenty ==
    (args.par.rnCycles = 0 /\ count.defaulted = 1) =>
        /\ p.rnCycles = 20
        /\ count.ioWrites > 0 => count.maskUpdates >= 1 /\ count.hioSteps >= 1

\* ---------------------------------------------------------------------- C5
InvalidArguments ==
    \/ args.shape.null
    \/ args.shape.width = 0 \/ args.shape.height = 0
    \/ variant = "cpu" /\ args.shape.dims # 2
\* positions before the first allocation
BeforeAllocation == { "entry", "sw_checkNull", "sw_defaults", "sw_countElements",
                      "cu_defaults" }

\* C5: with an invalid argument (null data pointer, zero width or height,
\* shape not two-dimensional) the call returns 1 before anything has been
\* allocated; it neither aborts nor goes on into the algorithm.
C5_InvalidArgumentReturnsOne ==
    InvalidArguments =>
        /\ pc \in BeforeAllocation \cup { "returned" }
        /\ pc = "returned" => status = 1
        /\ \A r \in Resources : res[r] = "none"

\* ---------------------------------------------------------------------- C6
\* C6: when a buffer allocation or a plan creation has failed, the call does
\* not crash, abort or unwind; it runs no step on the missing resource,
\* returns a status other than 0 and 1, and holds no resource afterwards.
C6_ResourceFailureReported ==
    count.failures > 0 =>
        /\ pc \notin Failed
        /\ ~Faults(pc)
        /\ pc = "returned" => /\ status \notin { 0, 1 }
                              /\ \A r \in Resources : res[r] # "live"

\* ---------------------------------------------------------------------- C7
\* all rnCycles cycles have run and the last error is not below the target
Exhausted ==
    /\ count.defaulted = 1 /\ count.cycles >= 1
    /\ count.cycles = p.rnCycles /\ count.tests = count.cycles
    /\ currentError >= p.rTargetError

\* C7: exhausting rnCycles without the error falling below rTargetError is no
\* error: the call goes on to return 0, and the caller's array then holds the
\* real part of the estimate g' (the result of the last inverse FFT) that the
\* last convergence test read.
C7_ExhaustedReturnsEstimate ==
    Exhausted =>
        /\ pc \in LoopEnd \cup AfterLoop
        /\ curData = gAtCycleEnd /\ Op(gAtCycleEnd) = "ifft"
        /\ pc \in AfterCopyOut => ioData = RealPart(gAtCycleEnd)
        /\ pc = "returned" => status = 0

\* a shrinkWrap run has used up its two cycles without converging and returned
C7_Witness ==
    /\ variant = "cpu" /\ pc = "returned" /\ Exhausted
    /\ p.rnCycles = 2 /\ nElements > 0
    /\ currentError > p.rTargetError

\* ---------------------------------------------------------------------- C8
\* C8 as stated: no element of the caller's array is written during the call.
C8_NeverWritten == count.ioWrites = 0 /\ ioData = Intensity

\* C8: the caller's array is only read until the shrink-wrap loop has ended;
\* it is written exactly once, by the final copy-out of the real part of the
\* estimate, in every call that gets that far.
C8_WrittenOnlyByCopyOut ==
    /\ count.ioWrites <= 1
    /\ count.ioWrites = 0 => ioData = Intensity
    /\ count.ioWrites = 1 => pc \in AfterCopyOut /\ ioData = RealPart(curData)
    /\ pc \in AfterCopyOut => (count.ioWrites = 1 <=> count.defaulted = 1)

\* a run has gone through HIO steps, which read the array, and has returned
\* with the array overwritten
C8_Witness ==
    /\ pc = "returned" /\ status = 0
    /\ count.hioSteps >= 2 /\ count.ioWrites = 1
    /\ ioData # Intensity /\ Op(ioData) = "re"

\* ---------------------------------------------------------------------- C9
\* C9: a call writes no file, whatever the arguments and the build.
C9_NoFileWritten == count.files = 0

\* --------------------------------------------------------------------- C10
DeviceOps == { "memcpyHostToDevice", "copyToRealPart", "inverseFFT", "forwardFFT",
               "complexNorm", "gaussianBlur", "cutOff", "seedGPrevious",
               "hioConstraint", "complexModulus", "calculateHioError",
               "copyFromRealPart", "memcpyDeviceToHost" }

\* C10: every device operation of cudaShrinkWrap (copies, kernels, blur,
\* reductions, both FFT executions) is enqueued on the stream of the kernel
\* configuration.
C10_AllOnStream ==
    (variant = "cuda" /\ lastOp.name \in DeviceOps) => lastOp.queue = "rStream"

\* --------------------------------------------------------------------- C11
\* C11: two calls running side by side on different images share nothing:
\* whatever one of them has read or written (buffer, plan, image, file), the
\* other has not touched.
C11_NothingShared ==
    \A x, y \in concurrent.used :
        (x[2][1] = y[2][1] /\ x[2] = y[2]) => x[1] = y[1]

\* --------------------------------------------------------------------- C12
\* the autocorrelation: the inverse FFT of the intensity
Autocorrelation == InverseFFT(ToComplex(Intensity))
\* positions where the HIO constraint reads the mask
ReadsMask == { "sw_hioConstraint", "cu_hioConstraint" }

\* C12: the mask read by the HIO steps of the first cycle is the blurred
\* (sigma0) modulus of the autocorrelation cut at rIntensityCutOffAutoCorel;
\* the mask read in any later cycle is the blurred modulus of the estimate g'
\* cut at rIntensityCutOff.
C12_FirstMaskFromAutocorrelation ==
    pc \in ReadsMask =>
        IF count.cycles = 1
        THEN isMasked = CutOff(Blur(ComplexNorm(Autocorrelation), p.rSigma0),
                               p.rIntensityCutOffAutoCorel)
        ELSE /\ Op(isMasked) = "cut" /\ isMasked[3] = p.rIntensityCutOff
             /\ Op(isMasked[2]) = "blur" /\ Op(isMasked[2][2]) = "norm"
             /\ Op(isMasked[2][2][2]) = "ifft"
             /\ Op(isMasked[2][2][2][2]) = "mod"

\* --------------------------------------------------------------------- C13
\* C13: every parameter of cudaShrinkWrap that has a default and was passed
\* as -1, the unsigned rnCycles and rnHioCycles included, has its documented
\* default value after the defaulting.
C13_MinusOneMeansDefault ==
    count.defaulted = 1 =>
        \A f \in DOMAIN DocDefaults :
            args.par[f] \in { -1, -One } => p[f] = DocDefaults[f]

\* --------------------------------------------------------------------- C14
\* C14: with rIntensityCutOffAutoCorel = 0 the first mask of cudaShrinkWrap
\* masks every pixel, with 1.0 it masks none.
C14_CutOffExtremes ==
    (pc = "cu_sigmaUpdate" /\ count.maskUpdates = 1) =>
        /\ args.par.rIntensityCutOffAutoCorel = 0
              => \A i \in Pixels : isMasked[i] = 1
        /\ args.par.rIntensityCutOffAutoCorel = One
              => \A i \in Pixels : isMasked[i] = 0

\* --------------------------------------------------------------------- C15
\* the constraint has just been applied to gPrevious
ConstraintApplied == pc = "sw_hioConstraint" /\ pc' = "sw_forwardFFT"
\* x, in units of 1e-5, is g - beta * gPrime
IsFeedback(x, g, gPrime, beta) ==
    /\ x.re + beta * gPrime.re = g.re * One
    /\ x.im + beta * gPrime.im = g.im * One
\* x, in units of 1e-5, is gPrime
IsCopy(x, gPrime) == x.re = gPrime.re * One /\ x.im = gPrime.im * One

\* C15: one application of the HIO constraint sets, for every pixel on its
\* own, g_prev := g_prev - beta * g' (real and imaginary part) when M = 1 or
\* Re(g') < 0 and g_prev := g' otherwise (so also for M = 0 and Re(g') = 0);
\* g' and M are left unchanged.
C15_HioConstraint ==
    [][ ConstraintApplied =>
          /\ curData' = curData /\ isMasked' = isMasked
          /\ \A i \in Pixels :
                IF isMasked[i] = 1 \/ curData[i].re < 0
                THEN IsFeedback(gPrevious'[i], gPrevious[i], curData[i], p.rHioBeta)
                ELSE IsCopy(gPrevious'[i], curData[i]) ]_vars

\* the constraint has been applied to an image with an unmasked pixel whose
\* g' has real part 0, and with a masked pixel
C15_Witness ==
    /\ pc = "sw_forwardFFT" /\ count.hioSteps = 1
    /\ \E i, j \in Pixels :
          /\ isMasked[i] = 0 /\ curData[i].re = 0 /\ curData[i].im = 1
          /\ gPrevious[i] = [ re |-> 0, im |-> One ]
          /\ isMasked[j] = 1 /\ curData[j].re = 1
          /\ gPrevious[j].re \in { One - p.rHioBeta, -p.rHioBeta }

\* --------------------------------------------------------------------- C16
\* C16: once a mask has been cut, the mask buffer holds a thresholded (0/1)
\* image in every state, inside a mask update too.
C16_MaskAlwaysBinary == count.maskUpdates >= 1 => Op(isMasked) = "cut"

\* --------------------------------------------------------------------- C17
\* C17: every blur of the mask uses a scale of at least 1.5, and the update
\* sigma = fmax( 1.5, ( 1 - rSigmaChange ) * sigma ) never raises the scale.
C17_SigmaDecaysAboveFloor ==
    /\ [] (Op(isMasked) = "blur" => isMasked[3] >= SigmaFloor)
    /\ [][ (pc \in { "sw_sigmaUpdate", "cu_sigmaUpdate" }) => (sigma' <= sigma) ]_vars

\* --------------------------------------------------------------------- C18
\* calcGaussianKernel was called with a buffer and rSigma >= 0 and has returned
KernelReturned ==
    kernel.pc = "returned" /\ ~kernel.null /\ kernel.rSigma >= 0
\* n is the least integer that is at least 2.8844 * rSigma - 0.5
IsHalfWidth(n, rSigma) ==
    LET x == 2 * KernelReach * rSigma - SigmaUnit * ReachUnit
    IN  /\ n * 2 * SigmaUnit * ReachUnit >= x
        /\ (n - 1) * 2 * SigmaUnit * ReachUnit < x

\* C18: for rSigma >= 0 calcGaussianKernel returns 2n+1 with
\* n = ceil(2.8844.. * rSigma - 0.5), which is odd and at least 1; with a
\* buffer shorter than that it writes no element, and otherwise it writes
\* exactly the elements 0..2n. No element beyond the buffer is written at
\* any time.
C18_KernelSizeAndFrame ==
    /\ kernel.pc # "none" => kernel.written \subseteq 0..(kernel.rnWeights - 1)
    /\ KernelReturned =>
          \E n \in 0..(2 * MaxSigma) :
             /\ IsHalfWidth(n, kernel.rSigma)
             /\ kernel.result = 2 * n + 1
             /\ kernel.result % 2 = 1 /\ kernel.result >= 1
             /\ IF kernel.rnWeights < 2 * n + 1
                THEN /\ kernel.written = { }
                     /\ \A j \in DOMAIN kernel.rWeights : kernel.rWeights[j] = Uninit
                ELSE kernel.written = 0..(2 * n)

\* a kernel of three weights was written into a buffer of exactly three
C18_Witness ==
    /\ KernelReturned /\ kernel.rSigma > 0
    /\ kernel.result = 3 /\ kernel.rnWeights = 3 /\ kernel.written = { 0, 1, 2 }

\* --------------------------------------------------------------------- C19
\* C19: called with rSigma == 0 and a buffer of at least one element,
\* calcGaussianKernel returns 1 and leaves 1.0 in rWeights[0].
C19_ZeroSigmaKernel ==
    (KernelReturned /\ kernel.rSigma = 0 /\ kernel.rnWeights >= 1) =>
        kernel.result = 1 /\ kernel.rWeights[0] = Num(1)

\* --------------------------------------------------------------------- C20
\* both arrays have been through the horizontal and the vertical pass
BothBlurred == images.pc = [ data |-> "done", mirrored |-> "done" ]

TrueCount(word, nElem) ==
    (nElem \div WordBits) * Cardinality(word)
        + Cardinality({ i \in 0..((nElem % WordBits) - 1) : (WordBits - 1 - i) \in word })
\* every reduction of the current round returned the number of masked pixels
CountsRight ==
    \A k \in DOMAIN frame.results :
       LET n == TrueCount(frame.word, SamplingPoints[frame.iPoint])
       IN  /\ frame.results[k].nMaskedPixels = n
           /\ n <= SamplingPoints[frame.iPoint]
           /\ frame.nLastMaskedPixels <= n

C22_Terminates ==
    /\ <>(pc \in Terminal)
    /\ [](count.defaulted = 1 => count.hioSteps <= p.rnCycles * p.rnHioCycles)
    /\ []((pc \in Terminal /\ ~InvalidArguments /\ count.failures = 0)
             => pc = "returned" /\ status = 0)

\* a call has run all its cycles, each with all its HIO steps, without the
\* error falling below the target, and has returned
C22_Witness ==
    /\ pc = "returned" /\ status = 0
    /\ p.rnCycles >= 2 /\ p.rnHioCycles >= 2
    /\ count.cycles = p.rnCycles
    /\ count.hioSteps = p.rnCycles * p.rnHioCycles
    /\ currentError >= p.rTargetError

\* --------------------------------------------------------------------- C23
\* nothing is left allocated at a return; no statement uses a released buffer
\* or plan; nothing has been released before the statements that release
C23_Inv ==
    /\ pc = "returned" => \A r \in Resources : res[r] # "live"
    /\ \A r \in Needs(pc) \cap Resources : res[r] # "freed"
    /\ pc \in { "sw_free", "cu_free" } => \A r \in Resources : res[r] # "freed"
\* inside the shrink-wrap loop nothing is allocated, planned or released
C23_Step ==
    (count.cycles >= 1 /\ pc \notin AfterLoop \cup Terminal) => res' = res

\* C23: on every return path each buffer and each FFT plan allocated during
\* the call has been released, once, before the call returns; none is used
\* after its release; the plans are created before the loops, not inside.
C23_ReleasedOnReturn == [] C23_Inv /\ [][C23_Step]_vars

\* a call has gone through at least one cycle and returned, with its buffers
\* and both plans released
C23_Witness ==
    /\ pc = "returned" /\ status = 0 /\ count.cycles >= 1 /\ count.hioSteps >= 1
    /\ \A r \in { "curData", "gPrevious", "isMasked", "toRealSpace", "toFreqSpace" } :
          res[r] = "freed"

\* --------------------------------------------------------------------- C24
\* C24: when the first HIO constraint of the first cycle is about to run,
\* g_prev is the complex image made of the input intensity (re = intensity,
\* im = 0) and g_prev has been written once.
C24_SeededWithImage ==
    (pc \in { "sw_hioConstraint", "cu_hioConstraint" } /\ count.hioSteps = 0)
        => gPrevious = ToComplex(Intensity) /\ count.gPrevWrites = 1

\* --------------------------------------------------------------------- C25
\* the statements that read the current estimate as g'
ReadsEstimate == { "sw_maskNorm", "cu_maskNorm", "sw_hioConstraint",
                   "cu_hioConstraint", "sw_converged", "cu_converged" }

\* C25: in every cycle, the first included, a mask update, an HIO constraint
\* and a convergence test read the current-estimate buffer only when the
\* operation that wrote it last was an inverse FFT.
C25_ReadsObjectSpace == pc \in ReadsEstimate => Op(curData) = "ifft"

\* --------------------------------------------------------------------- C26
\* cudaShrinkWrap is at the statement shrinkWrap was left at
SameStatement ==
    \/ frame.pc = "firstHio" /\ pc = "cu_hioConstraint" /\ count.hioSteps = 0
    \/ /\ frame.pc = "maskUpdate" /\ pc = "cu_sigmaUpdate"
       /\ iCycleShrinkWrap = frame.iCycle

\* C26: with the same effective parameters and nCycles >= 1, the mask, g_prev
\* and the current estimate at the start of the first HIO step are the same in
\* shrinkWrap and cudaShrinkWrap, and so are the threshold factor and the
\* sigma of every later mask update.
C26_DriversAgree ==
    SameStatement =>
        IF frame.pc = "firstHio"
        THEN << isMasked, gPrevious, curData >> = frame.seen
        ELSE UpdateUsed(isMasked) = frame.seen

\* --------------------------------------------------------------------- C27
\* C27: after fftShift the element at row iy, column ix is the one that was
\* at row (iy + Ny/2) % Ny, column (ix + Nx/2) % Nx before, for all Nx, Ny >= 1
\* and every (ix, iy); the contents are only permuted.
C27_FftShiftIsIndexShift ==
    frame.pc = "shifted" =>
        /\ \A iy \in 0..(frame.Ny - 1), ix \in 0..(frame.Nx - 1) :
              frame.data[iy * frame.Nx + ix]
                 = ShiftedIndex(ix, iy, frame.Nx, frame.Ny)
        /\ { frame.data[k] : k \in DOMAIN frame.data } = DOMAIN frame.data

\* --------------------------------------------------------------------- C28
\* C28: calcGaussianKernel2d reads and writes only the elements
\* 0 .. rnWeightsX*rnWeightsY - 1 of rWeights, in the fill loop and in the
\* normalisation loop, for every rnWeightsX, rnWeightsY >= 1.
C28_Kernel2dInBounds ==
    frame.pc \in { "fill", "normalise", "normalised" }
        => frame.touched \subseteq 0..(frame.rnWeightsX * frame.rnWeightsY - 1)

\* --------------------------------------------------------------------- C29
\* C29: no memory copy of cudaShrinkWrap (host to device, device to device,
\* device to host, the copies into pHostToWrite included) transfers more
\* elements than its source or its destination was allocated with; all
\* three sizes are counted in floats.
C29_CopiesWithinAllocations ==
    variant = "cuda" => lastCopy.n <= lastCopy.src /\ lastCopy.n <= lastCopy.dst

\* --------------------------------------------------------------------- C30
\* bit number b of a packed word, counted from the least significant bit
BitSet(word, b) == b \in word

\* C30: unpackBitMask writes, for every i < nElements, rMask[i] = 1 if bit
\* nBits - 1 - (i mod nBits) of rPackedBits[i div nBits] is set and 0
\* otherwise; it writes no element of rMask at an index >= nElements and reads
\* no packed word at an index >= ceil(nElements / nBits), also when nElements
\* is not a multiple of nBits; no assert of the function fails.
C30_UnpackBitMask ==
    frame.pc \in { "outer", "inner", "unpacked", "aborted" } =>
        /\ frame.pc # "aborted"
        /\ frame.written \subseteq 0..(frame.nElements - 1)
        /\ frame.read \subseteq 0..(ceilDiv(frame.nElements, WordBits) - 1)
        /\ \A i \in DOMAIN frame.rMask \ frame.written : frame.rMask[i] = Untouched
        /\ frame.pc = "unpacked" =>
              \A i \in 0..(frame.nElements - 1) :
                 frame.rMask[i] =
                    IF BitSet(frame.rPackedBits[i \div WordBits],
                              WordBits - 1 - (i % WordBits))
                    THEN 1 ELSE 0

\* a mask that ends one element into its second word, with different words,
\* is unpacked, both values among its elements
C30_Witness ==
    /\ frame.pc = "unpacked"
    /\ frame.nElements = WordBits + 1
    /\ frame.rPackedBits[0] = { 0 } /\ frame.rPackedBits[1] = { WordBits - 1 }
    /\ frame.rMask[WordBits - 1] = 1 /\ frame.rMask[WordBits] = 1
    /\ frame.rMask[0] = 0
    /\ frame.rMask[WordBits + 1] = Untouched

====
